---- MODULE Spec2Model ----
(***************************************************************************)
(* Model of the layered Todo/User/Label application (hello_world_axum_3):  *)
(* value objects, entities, the in-memory repositories behind a            *)
(* reader/writer lock, the duplicate-avoidance domain services, the        *)
(* application services and the HTTP handlers' status mapping.             *)
(*                                                                         *)
(* A string is modelled by its byte length and a content number that       *)
(* tells apart different strings of the same length.  A UUID is a natural  *)
(* number; an id string is either a well-formed UUID text or malformed.    *)
(***************************************************************************)
EXTENDS Integers, Sequences, FiniteSets, TLC

\* ---------------------------------------------------------------- bounds
MaxStrLen == 101
NumContents == 2
MaxUuid == 2
MaxLabelIds == 1
NumProcs == 2
MaxAnswers == 1

\* ------------------------------------------------------ program constants
UserNameMinLen == 3
UserNameMaxLen == 20
LabelNameMaxLen == 20
TodoTextMaxLen == 100

VARIABLES
    labelStore,   \* InMemoryLabelRepository.store : LabelId -> Label
    userStore,    \* InMemoryUserRepository.store  : UserId  -> User
    todoStore,    \* InMemoryTodoRepository.store  : TodoId  -> Todo
    nextUuid,     \* number of UUIDs handed out by Uuid::new_v4 so far
    last,         \* the last request handled: command, result, HTTP status
    voInput,      \* value-object check: the raw string
    voResult,     \* value-object check: the result of the constructor
    lock,         \* label store: the RwLock's writer and readers
    todoLock,     \* todo store: the RwLock's writer and readers
    pc,           \* per task: position inside its command
    task,         \* per task: command, locals and result
    answered,     \* number of commands answered whose task took another one
    pgLabels,     \* table labels: id -> name
    pgTodos,      \* table todos: id -> (text, completed)
    pgTodoLabels, \* table todo_labels: set of (todo_id, label_id)
    dbData,       \* first iteration, RepositoryForMemory.store : i32 -> DbRecord
    dbLock,       \* first iteration: the RwLock's writer and readers
    creates,      \* first iteration: number of create calls that have returned
    deleted       \* first iteration: some delete call has removed a record

vars == <<labelStore, userStore, todoStore, nextUuid, last,
          voInput, voResult, lock, todoLock, pc, task, answered,
          pgLabels, pgTodos, pgTodoLabels, dbData, dbLock,
          creates, deleted>>

None == [none |-> TRUE]

\* ---------------------------------------------------------------- strings
Str(n, c) == [len |-> n, c |-> c]
Len8(s) == s.len
IsEmpty(s) == Len8(s) = 0
AllStrings == {Str(n, c) : n \in 0..MaxStrLen, c \in 1..NumContents}

\* ----------------------------------------------------------- value objects
Ok(v) == [ok |-> TRUE, value |-> v]
Err(e) == [ok |-> FALSE, err |-> e]

UserNameNew_OffByOne(value) ==
    IF Len8(value) < UserNameMinLen THEN Err("UserNameTooShort")
    ELSE IF Len8(value) > UserNameMaxLen THEN Err("UserNameTooLong")
    ELSE Ok([value |-> value])

UserNameNew(value) ==
    IF Len8(value) < UserNameMinLen THEN Err("UserNameTooShort")
    ELSE IF Len8(value) >= UserNameMaxLen THEN Err("UserNameTooLong")
    ELSE Ok([value |-> value])

LabelNameNew_AcceptEmpty(value) ==
    IF Len8(value) >= LabelNameMaxLen THEN Err("LabelNameTooLong")
    ELSE Ok([value |-> value])

LabelNameNew(value) ==
    IF IsEmpty(value) THEN Err("LabelNameTooShort")
    ELSE IF Len8(value) >= LabelNameMaxLen THEN Err("LabelNameTooLong")
    ELSE Ok([value |-> value])

TodoTextNew_AnyLength(value) == Ok([value |-> value])

TodoTextNew(value) ==
    IF IsEmpty(value) THEN Err("TodoTextEmpty")
    ELSE IF Len8(value) >= TodoTextMaxLen THEN Err("TodoTextTooLong")
    ELSE Ok([value |-> value])

Value(vo) == vo.value

\* ------------------------------------------- value-object specification
InitIdle ==
    /\ labelStore = << >>
    /\ userStore = << >>
    /\ todoStore = << >>
    /\ nextUuid = 0
    /\ last = None
    /\ lock = None
    /\ todoLock = None
    /\ pc = None
    /\ task = None
    /\ answered = 0
    /\ pgLabels = << >>
    /\ pgTodos = << >>
    /\ pgTodoLabels = {}
    /\ dbData = << >>
    /\ dbLock = None
    /\ creates = 0
    /\ deleted = FALSE

InitVO ==
    /\ InitIdle
    /\ voInput \in AllStrings
    /\ voResult = None

appVars == <<labelStore, userStore, todoStore, nextUuid, last>>
concVars == <<lock, todoLock, pc, task, answered>>
voVars == <<voInput, voResult>>
pgVars == <<pgLabels, pgTodos, pgTodoLabels>>
v1Vars == <<dbData, dbLock, creates, deleted>>

VoUserName ==
    /\ voResult' = [type |-> "UserName", r |-> UserNameNew(voInput)]
    /\ UNCHANGED <<voInput, appVars, concVars, pgVars, v1Vars>>

VoLabelName ==
    /\ voResult' = [type |-> "LabelName", r |-> LabelNameNew(voInput)]
    /\ UNCHANGED <<voInput, appVars, concVars, pgVars, v1Vars>>

VoTodoText ==
    /\ voResult' = [type |-> "TodoText", r |-> TodoTextNew(voInput)]
    /\ UNCHANGED <<voInput, appVars, concVars, pgVars, v1Vars>>

NextVO == VoUserName \/ VoLabelName \/ VoTodoText

SpecVO == InitVO /\ [][NextVO]_vars

\* C10: each constructor succeeds exactly on its length range (UserName 3..19,
\* LabelName 1..19, TodoText 1..99); on success value() is the input
\* unchanged; a shorter input fails as too short (or empty), a longer one as
\* too long.
VoRange(type) ==
    CASE type = "UserName" -> [lo |-> 3, hi |-> 19, short |-> "UserNameTooShort", long |-> "UserNameTooLong"]
      [] type = "LabelName" -> [lo |-> 1, hi |-> 19, short |-> "LabelNameTooShort", long |-> "LabelNameTooLong"]
      [] type = "TodoText" -> [lo |-> 1, hi |-> 99, short |-> "TodoTextEmpty", long |-> "TodoTextTooLong"]

C10_ValueObjectBounds ==
    voResult # None =>
        LET rg == VoRange(voResult.type)
            r == voResult.r
            n == voInput.len
        IN /\ r.ok <=> (rg.lo <= n /\ n <= rg.hi)
           /\ r.ok => Value(r.value) = voInput
           /\ n < rg.lo => (~r.ok /\ r.err = rg.short)
           /\ n > rg.hi => (~r.ok /\ r.err = rg.long)

C10_Witness ==
    /\ voResult # None
    /\ voResult.type = "UserName"
    /\ voInput.len = 19
    /\ voResult.r.ok

RefusedAsShort ==
    ~voResult.r.ok /\ voResult.r.err = VoRange(voResult.type).short

\* C19 as stated: the minimum is 3 for UserName and 0 for LabelName and
\* TodoText, and an input is refused as too short exactly when it is shorter
\* than the minimum, so LabelName and TodoText refuse no input as too short.
C19_MinimumZeroOrThree ==
    voResult # None =>
        (RefusedAsShort <=>
            voInput.len < (IF voResult.type = "UserName" THEN 3 ELSE 0))

\* C19: the minimum is 3 for UserName and 1 for LabelName and TodoText: an
\* input is refused as too short (TodoText: as empty) exactly when it is
\* shorter than that, so the empty string is refused by all three.
C19_MinimumOneOrThree ==
    voResult # None =>
        (RefusedAsShort <=>
            voInput.len < (IF voResult.type = "UserName" THEN 3 ELSE 1))

\* LabelName::new has refused the empty string
C19_Witness ==
    /\ voResult # None
    /\ voResult.type = "LabelName"
    /\ voInput.len = 0
    /\ RefusedAsShort

\* ------------------------------------------------------------- entities
Some(x) == [some |-> x]

Label(id, name) == [label_id |-> id, label_name |-> name]
User(id, name) == [user_id |-> id, user_name |-> name]
Todo(id, text, completed, labels) ==
    [todo_id |-> id, todo_text |-> text, completed |-> completed, labels |-> labels]

\* entity equality compares identities only
LabelEq_AlwaysEqual(a, b) == TRUE

LabelEq(a, b) == a.label_id = b.label_id
UserEq(a, b) == a.user_id = b.user_id

\* ------------------------------------------- in-memory repositories
\* HashMap::insert, HashMap::get, HashMap::remove
MapInsert_KeepOld(store, k, v) ==
    [x \in DOMAIN store \cup {k} |-> IF x \in DOMAIN store THEN store[x] ELSE v]

MapInsert(store, k, v) ==
    [x \in DOMAIN store \cup {k} |-> IF x = k THEN v ELSE store[x]]

MapGet(store, k) == IF k \in DOMAIN store THEN Some(store[k]) ELSE None

MapRemove(store, k) == [x \in DOMAIN store \ {k} |-> store[x]]

MapValues(store) == {store[k] : k \in DOMAIN store}

OkUnit == [ok |-> TRUE]

LabelRepoSave_Unique(store, label) ==
    IF \E l \in MapValues(store) :
          l.label_name = label.label_name /\ l.label_id # label.label_id
    THEN [result |-> OkUnit, store |-> store]
    ELSE [result |-> OkUnit, store |-> MapInsert(store, label.label_id, label)]

LabelRepoSave(store, label) ==
    [result |-> OkUnit, store |-> MapInsert(store, label.label_id, label)]

LabelRepoFind(store, label_id) == MapGet(store, label_id)

\* the first match in the map's iteration order, which is unspecified: every
\* stored label with that name is a possible answer
LabelRepoFindByName(store, label_name) ==
    LET hits == {l \in MapValues(store) : l.label_name = label_name}
    IN IF hits = {} THEN {None} ELSE {Some(l) : l \in hits}

LabelRepoFindAll_First(store) ==
    IF DOMAIN store = {} THEN {} ELSE {store[CHOOSE k \in DOMAIN store : TRUE]}

LabelRepoFindAll(store) == MapValues(store)

LabelRepoDelete_Silent(store, label) ==
    [result |-> OkUnit, store |-> MapRemove(store, label.label_id)]

LabelRepoDelete(store, label) ==
    IF MapGet(store, label.label_id) # None
    THEN [result |-> OkUnit, store |-> MapRemove(store, label.label_id)]
    ELSE [result |-> Err([kind |-> "NotFound", id |-> label.label_id]), store |-> store]

UserRepoSave(store, user) ==
    [result |-> OkUnit, store |-> MapInsert(store, user.user_id, user)]

UserRepoFind(store, user_id) == MapGet(store, user_id)

UserRepoFindByName(store, user_name) ==
    LET hits == {u \in MapValues(store) : u.user_name = user_name}
    IN IF hits = {} THEN {None} ELSE {Some(u) : u \in hits}

UserRepoFindAll(store) == MapValues(store)

UserRepoDelete(store, user) ==
    IF MapGet(store, user.user_id) # None
    THEN [result |-> OkUnit, store |-> MapRemove(store, user.user_id)]
    ELSE [result |-> Err([kind |-> "NotFound", id |-> user.user_id]), store |-> store]

TodoRepoSave(store, todo) ==
    [result |-> OkUnit, store |-> MapInsert(store, todo.todo_id, todo)]

TodoRepoFind(store, todo_id) == MapGet(store, todo_id)

TodoRepoFindAll(store) == MapValues(store)

TodoRepoDelete(store, todo) ==
    IF MapGet(store, todo.todo_id) # None
    THEN [result |-> OkUnit, store |-> MapRemove(store, todo.todo_id)]
    ELSE [result |-> Err([kind |-> "NotFound", id |-> todo.todo_id]), store |-> store]

\* --------------------------------------------------------- domain services
LabelIsDuplicated_IgnoreId(search_result, label) ==
    search_result # None

LabelIsDuplicated_Negated(search_result, label) ==
    IF search_result = None THEN FALSE
    ELSE LabelEq(search_result.some, label)

LabelIsDuplicated(search_result, label) ==
    IF search_result = None THEN FALSE
    ELSE ~LabelEq(search_result.some, label)

UserIsDuplicated_Never(search_result, user) == FALSE

UserIsDuplicated(search_result, user) ==
    IF search_result = None THEN FALSE
    ELSE ~UserEq(search_result.some, user)

\* ------------------------------------------- repository specification
\* Direct calls on one InMemoryLabelRepository with arbitrary valid labels.
Uuids == 1..MaxUuid
RepoNames == {[value |-> Str(1, 1)], [value |-> Str(3, 1)], [value |-> Str(3, 2)]}
RepoLabels == {Label(i, n) : i \in Uuids, n \in RepoNames}

InitRepo ==
    /\ InitIdle
    /\ voInput = None
    /\ voResult = None

RepoSave(e) ==
    LET r == LabelRepoSave(labelStore, e)
    IN /\ labelStore' = r.store
       /\ last' = [op |-> "save", arg |-> e, result |-> r.result]
       /\ UNCHANGED <<userStore, todoStore, nextUuid, voVars, concVars, pgVars, v1Vars>>

RepoFind(id) ==
    /\ last' = [op |-> "find", arg |-> id, result |-> LabelRepoFind(labelStore, id)]
    /\ UNCHANGED <<labelStore, userStore, todoStore, nextUuid, voVars, concVars, pgVars, v1Vars>>

RepoFindByName(n) ==
    /\ \E r \in LabelRepoFindByName(labelStore, n) :
          last' = [op |-> "find_by_name", arg |-> n, result |-> r]
    /\ UNCHANGED <<labelStore, userStore, todoStore, nextUuid, voVars, concVars, pgVars, v1Vars>>

RepoFindAll ==
    /\ last' = [op |-> "find_all", arg |-> None,
                result |-> [all |-> LabelRepoFindAll(labelStore)]]
    /\ UNCHANGED <<labelStore, userStore, todoStore, nextUuid, voVars, concVars, pgVars, v1Vars>>

RepoDelete(e) ==
    LET r == LabelRepoDelete(labelStore, e)
    IN /\ labelStore' = r.store
       /\ last' = [op |-> "delete", arg |-> e, result |-> r.result]
       /\ UNCHANGED <<userStore, todoStore, nextUuid, voVars, concVars, pgVars, v1Vars>>

\* LabelService::is_duplicated: find_by_name, then the match on its answer
RepoIsDuplicated(e) ==
    /\ \E sr \in LabelRepoFindByName(labelStore, e.label_name) :
          last' = [op |-> "is_duplicated", arg |-> e,
                   result |-> [found |-> sr, duplicated |-> LabelIsDuplicated(sr, e)]]
    /\ UNCHANGED <<labelStore, userStore, todoStore, nextUuid, voVars, concVars, pgVars, v1Vars>>

NextRepo ==
    \/ \E e \in RepoLabels : RepoSave(e)
    \/ \E e \in RepoLabels : RepoIsDuplicated(e)
    \/ \E id \in Uuids : RepoFind(id)
    \/ \E n \in RepoNames : RepoFindByName(n)
    \/ RepoFindAll
    \/ \E e \in RepoLabels : RepoDelete(e)

SpecRepo == InitRepo /\ [][NextRepo]_vars

Size(store) == Cardinality(DOMAIN store)

\* C4: save(e) never fails; afterwards find(e.id) returns e's id and field
\* values; a stored id is replaced without changing the number of entries, a
\* new id adds exactly one entry; entries under other ids are unchanged.
C4_SaveThenFind ==
    [][last'.op = "save" =>
        LET e == last'.arg
        IN /\ last'.result = OkUnit
           /\ LabelRepoFind(labelStore', e.label_id) = Some(e)
           /\ Size(labelStore') =
                 IF e.label_id \in DOMAIN labelStore
                 THEN Size(labelStore) ELSE Size(labelStore) + 1
           /\ \A k \in DOMAIN labelStore \ {e.label_id} :
                 k \in DOMAIN labelStore' /\ labelStore'[k] = labelStore[k]
      ]_vars

\* an overwriting save has happened: the stored entry is the saved label and
\* another entry exists
C4_Witness ==
    /\ last # None
    /\ last.op = "save"
    /\ Size(labelStore) = 2
    /\ labelStore[last.arg.label_id] = last.arg
    /\ last.arg.label_name = [value |-> Str(3, 2)]

\* C5: delete(e) of a stored id removes the entry and succeeds, and find(e.id)
\* is then absent; delete(e) of an id not stored returns NotFound(e.id) and
\* leaves the store unchanged.
C5_Delete ==
    [][last'.op = "delete" /\ (last' # last \/ labelStore' # labelStore) =>
        LET e == last'.arg
        IN IF e.label_id \in DOMAIN labelStore
           THEN /\ last'.result = OkUnit
                /\ labelStore' = MapRemove(labelStore, e.label_id)
                /\ LabelRepoFind(labelStore', e.label_id) = None
           ELSE /\ last'.result = Err([kind |-> "NotFound", id |-> e.label_id])
                /\ labelStore' = labelStore
      ]_vars

C5_Witness ==
    /\ last # None
    /\ last.op = "delete"
    /\ last.result = OkUnit
    /\ Size(labelStore) = 1

C5_WitnessNotFound ==
    /\ last # None
    /\ last.op = "delete"
    /\ last.result # OkUnit
    /\ Size(labelStore) = 1

\* ------------------------------------------------------------ id strings
\* Uuid::try_parse accepts the textual form of a UUID and nothing else
IdStr(u) == [wf |-> TRUE, uuid |-> u]
MalformedId == [wf |-> FALSE, uuid |-> 0]
IdStrings == {IdStr(u) : u \in Uuids} \cup {MalformedId}

UuidParse(s) == IF s.wf THEN Ok(s.uuid) ELSE Err("FailToParse")

\* Uuid::new_v4: a value no entity carries yet.  uuids are handed out in
\* increasing order; nextUuid is the last one an entity was built with.
NewUuid == nextUuid + 1

\* ------------------------------------------------------ application errors
AppOk(d) == [kind |-> "Ok", data |-> d]
AppOkUnit == [kind |-> "Ok"]
AppOkAll(ds) == [kind |-> "Ok", all |-> ds]
Duplicated(kind, e) == [kind |-> kind, entity |-> e]
NotFound(kind, id) == [kind |-> kind, id |-> id]
Illegal(kind, msg) == [kind |-> kind, msg |-> msg]

LabelData(label) ==
    [label_id |-> label.label_id, label_name |-> Value(label.label_name)]
UserData(user) ==
    [user_id |-> user.user_id, user_name |-> Value(user.user_name)]
TodoData(todo) ==
    [todo_id |-> todo.todo_id, todo_text |-> Value(todo.todo_text),
     completed |-> todo.completed,
     labels |-> {LabelData(l) : l \in todo.labels}]

\* ---------------------------------------------- label application services
\* Each handle gives the set of possible outcomes [result, store]; more than
\* one outcome only where find_by_name has several matches to choose from.
LabelCreateHandle_NoCheck(store, command, uuid) ==
    LET nm == LabelNameNew(command.label_name)
    IN IF ~nm.ok
       THEN {[result |-> Illegal("IllegalArgumentError", nm.err), store |-> store]}
       ELSE LET new_label == Label(uuid, nm.value)
            IN {[result |-> AppOk(LabelData(new_label)),
                 store |-> LabelRepoSave(store, new_label).store]}

LabelCreateHandle(store, command, uuid) ==
    LET nm == LabelNameNew(command.label_name)
    IN IF ~nm.ok
       THEN {[result |-> Illegal("IllegalArgumentError", nm.err), store |-> store]}
       ELSE LET new_label == Label(uuid, nm.value)
            IN {IF LabelIsDuplicated(sr, new_label)
                THEN [result |-> Duplicated("DuplicatedLabel", new_label), store |-> store]
                ELSE [result |-> AppOk(LabelData(new_label)),
                      store |-> LabelRepoSave(store, new_label).store]
                : sr \in LabelRepoFindByName(store, nm.value)}

LabelGetHandle(store, command) ==
    LET id == UuidParse(command.label_id)
    IN IF ~id.ok
       THEN {[result |-> Illegal("IllegalLabelId", id.err), store |-> store]}
       ELSE LET label_found == LabelRepoFind(store, id.value)
            IN IF label_found = None
               THEN {[result |-> NotFound("LabelNotFound", id.value), store |-> store]}
               ELSE {[result |-> AppOk(LabelData(label_found.some)), store |-> store]}

LabelGetAllHandle(store) ==
    {[result |-> AppOkAll({LabelData(l) : l \in LabelRepoFindAll(store)}),
      store |-> store]}

LabelUpdateHandle_ValidateFirst(store, command) ==
    LET id == UuidParse(command.label_id)
        given == IF command.label_name = None
                 THEN Ok(None)
                 ELSE LabelNameNew(command.label_name.some)
    IN IF ~id.ok
       THEN {[result |-> Illegal("IllegalLabelId", id.err), store |-> store]}
       ELSE IF ~given.ok
       THEN {[result |-> Illegal("IllegalArgumentError", given.err), store |-> store]}
       ELSE
       LET found == LabelRepoFind(store, id.value)
       IN IF found = None
          THEN {[result |-> NotFound("LabelNotFound", id.value), store |-> store]}
          ELSE
          LET label == IF command.label_name = None THEN found.some
                       ELSE [found.some EXCEPT !.label_name = given.value]
          IN {IF LabelIsDuplicated(sr, label)
              THEN [result |-> Duplicated("DuplicatedLabel", label), store |-> store]
              ELSE [result |-> AppOk(LabelData(label)),
                    store |-> LabelRepoSave(store, label).store]
              : sr \in LabelRepoFindByName(store, label.label_name)}

LabelUpdateHandle(store, command) ==
    LET id == UuidParse(command.label_id)
    IN IF ~id.ok
       THEN {[result |-> Illegal("IllegalLabelId", id.err), store |-> store]}
       ELSE
       LET found == LabelRepoFind(store, id.value)
       IN IF found = None
          THEN {[result |-> NotFound("LabelNotFound", id.value), store |-> store]}
          ELSE
          LET nm == IF command.label_name = None
                    THEN Ok(found.some.label_name)
                    ELSE LabelNameNew(command.label_name.some)
          IN IF ~nm.ok
             THEN {[result |-> Illegal("IllegalArgumentError", nm.err), store |-> store]}
             ELSE
             LET label == [found.some EXCEPT !.label_name = nm.value]
             IN {IF LabelIsDuplicated(sr, label)
                 THEN [result |-> Duplicated("DuplicatedLabel", label), store |-> store]
                 ELSE [result |-> AppOk(LabelData(label)),
                       store |-> LabelRepoSave(store, label).store]
                 : sr \in LabelRepoFindByName(store, label.label_name)}

LabelDeleteHandle(store, command) ==
    LET id == UuidParse(command.label_id)
    IN IF ~id.ok
       THEN {[result |-> Illegal("IllegalLabelId", id.err), store |-> store]}
       ELSE
       LET found == LabelRepoFind(store, id.value)
       IN IF found = None
          THEN {[result |-> NotFound("LabelNotFound", id.value), store |-> store]}
          ELSE
          LET r == LabelRepoDelete(store, found.some)
          IN IF r.result = OkUnit
             THEN {[result |-> AppOkUnit, store |-> r.store]}
             ELSE {[result |-> NotFound("LabelNotFound", r.result.err.id), store |-> r.store]}

\* ----------------------------------------------- user application services
UserCreateHandle(store, command, uuid) ==
    LET nm == UserNameNew(command.user_name)
    IN IF ~nm.ok
       THEN {[result |-> Illegal("IllegalArgumentError", nm.err), store |-> store]}
       ELSE LET new_user == User(uuid, nm.value)
            IN {IF UserIsDuplicated(sr, new_user)
                THEN [result |-> Duplicated("DuplicatedUser", new_user), store |-> store]
                ELSE [result |-> AppOk(UserData(new_user)),
                      store |-> UserRepoSave(store, new_user).store]
                : sr \in UserRepoFindByName(store, nm.value)}

UserGetHandle(store, command) ==
    LET id == UuidParse(command.user_id)
    IN IF ~id.ok
       THEN {[result |-> Illegal("IllegalUserId", id.err), store |-> store]}
       ELSE LET user_found == UserRepoFind(store, id.value)
            IN IF user_found = None
               THEN {[result |-> NotFound("UserNotFound", id.value), store |-> store]}
               ELSE {[result |-> AppOk(UserData(user_found.some)), store |-> store]}

UserGetAllHandle(store) ==
    {[result |-> AppOkAll({UserData(u) : u \in UserRepoFindAll(store)}),
      store |-> store]}

UserUpdateHandle(store, command) ==
    LET id == UuidParse(command.user_id)
    IN IF ~id.ok
       THEN {[result |-> Illegal("IllegalUserId", id.err), store |-> store]}
       ELSE
       LET found == UserRepoFind(store, id.value)
       IN IF found = None
          THEN {[result |-> NotFound("UserNotFound", id.value), store |-> store]}
          ELSE
          LET nm == IF command.user_name = None
                    THEN Ok(found.some.user_name)
                    ELSE UserNameNew(command.user_name.some)
          IN IF ~nm.ok
             THEN {[result |-> Illegal("IllegalArgumentError", nm.err), store |-> store]}
             ELSE
             LET user == [found.some EXCEPT !.user_name = nm.value]
             IN {IF UserIsDuplicated(sr, user)
                 THEN [result |-> Duplicated("DuplicatedUser", user), store |-> store]
                 ELSE [result |-> AppOk(UserData(user)),
                       store |-> UserRepoSave(store, user).store]
                 : sr \in UserRepoFindByName(store, user.user_name)}

UserDeleteHandle(store, command) ==
    LET id == UuidParse(command.user_id)
    IN IF ~id.ok
       THEN {[result |-> Illegal("IllegalUserId", id.err), store |-> store]}
       ELSE
       LET found == UserRepoFind(store, id.value)
       IN IF found = None
          THEN {[result |-> NotFound("UserNotFound", id.value), store |-> store]}
          ELSE
          LET r == UserRepoDelete(store, found.some)
          IN IF r.result = OkUnit
             THEN {[result |-> AppOkUnit, store |-> r.store]}
             ELSE {[result |-> NotFound("UserNotFound", r.result.err.id), store |-> r.store]}

\* ----------------------------------------------- todo application services
\* HashSet<Label>::insert: an element equal to one already present (labels
\* are equal when their ids are) is not inserted
LabelSetInsert(labels, label) ==
    IF \E l \in labels : LabelEq(l, label) THEN labels ELSE labels \cup {label}

\* the loop over label_id_strings: parse, find, insert; the first failure
\* ends the command
RECURSIVE ResolveLabels(_, _, _)
ResolveLabels(lstore, label_id_strings, labels) ==
    IF label_id_strings = << >> THEN [ok |-> TRUE, labels |-> labels]
    ELSE LET id == UuidParse(Head(label_id_strings))
         IN IF ~id.ok
            THEN [ok |-> FALSE, error |-> Illegal("IllegalLabelId", id.err)]
            ELSE LET label == LabelRepoFind(lstore, id.value)
                 IN IF label = None
                    THEN [ok |-> FALSE, error |-> NotFound("LabelNotFound", id.value)]
                    ELSE ResolveLabels(lstore, Tail(label_id_strings),
                                       LabelSetInsert(labels, label.some))

TodoCreateHandle_Completed(store, lstore, command, uuid) ==
    LET text == TodoTextNew(command.todo_text)
    IN IF ~text.ok
       THEN {[result |-> Illegal("IllegalArgumentError", text.err), store |-> store]}
       ELSE
       LET rl == ResolveLabels(lstore, command.label_ids, {})
       IN IF ~rl.ok
          THEN {[result |-> rl.error, store |-> store]}
          ELSE LET new_todo == Todo(uuid, text.value, TRUE, rl.labels)
               IN {[result |-> AppOk(TodoData(new_todo)),
                    store |-> TodoRepoSave(store, new_todo).store]}

TodoCreateHandle(store, lstore, command, uuid) ==
    LET text == TodoTextNew(command.todo_text)
    IN IF ~text.ok
       THEN {[result |-> Illegal("IllegalArgumentError", text.err), store |-> store]}
       ELSE
       LET rl == ResolveLabels(lstore, command.label_ids, {})
       IN IF ~rl.ok
          THEN {[result |-> rl.error, store |-> store]}
          ELSE LET new_todo == Todo(uuid, text.value, FALSE, rl.labels)
               IN {[result |-> AppOk(TodoData(new_todo)),
                    store |-> TodoRepoSave(store, new_todo).store]}

TodoGetHandle(store, command) ==
    LET id == UuidParse(command.todo_id)
    IN IF ~id.ok
       THEN {[result |-> Illegal("IllegalTodoId", id.err), store |-> store]}
       ELSE LET todo_found == TodoRepoFind(store, id.value)
            IN IF todo_found = None
               THEN {[result |-> NotFound("TodoNotFound", id.value), store |-> store]}
               ELSE {[result |-> AppOk(TodoData(todo_found.some)), store |-> store]}

TodoGetAllHandle(store) ==
    {[result |-> AppOkAll({TodoData(t) : t \in TodoRepoFindAll(store)}),
      store |-> store]}

TodoUpdateHandle_SaveEarly(store, lstore, command) ==
    LET id == UuidParse(command.todo_id)
    IN IF ~id.ok
       THEN {[result |-> Illegal("IllegalTodoId", id.err), store |-> store]}
       ELSE
       LET found == TodoRepoFind(store, id.value)
       IN IF found = None
          THEN {[result |-> NotFound("TodoNotFound", id.value), store |-> store]}
          ELSE
          LET text == IF command.todo_text = None
                      THEN Ok(found.some.todo_text)
                      ELSE TodoTextNew(command.todo_text.some)
          IN IF ~text.ok
             THEN {[result |-> Illegal("IllegalArgumentError", text.err), store |-> store]}
             ELSE
             LET completed == IF command.completed = None
                              THEN found.some.completed
                              ELSE command.completed.some
                 early == [found.some EXCEPT !.todo_text = text.value,
                                             !.completed = completed]
                 rl == IF command.label_ids = None
                       THEN [ok |-> TRUE, labels |-> found.some.labels]
                       ELSE ResolveLabels(lstore, command.label_ids.some, {})
             IN IF ~rl.ok
                THEN {[result |-> rl.error, store |-> TodoRepoSave(store, early).store]}
                ELSE LET todo == [early EXCEPT !.labels = rl.labels]
                     IN {[result |-> AppOk(TodoData(todo)),
                          store |-> TodoRepoSave(store, todo).store]}

TodoUpdateHandle_ResetAbsent(store, lstore, command) ==
    LET id == UuidParse(command.todo_id)
    IN IF ~id.ok
       THEN {[result |-> Illegal("IllegalTodoId", id.err), store |-> store]}
       ELSE
       LET found == TodoRepoFind(store, id.value)
       IN IF found = None
          THEN {[result |-> NotFound("TodoNotFound", id.value), store |-> store]}
          ELSE
          LET text == IF command.todo_text = None
                      THEN Ok(found.some.todo_text)
                      ELSE TodoTextNew(command.todo_text.some)
          IN IF ~text.ok
             THEN {[result |-> Illegal("IllegalArgumentError", text.err), store |-> store]}
             ELSE
             LET completed == IF command.completed = None
                              THEN FALSE
                              ELSE command.completed.some
                 rl == IF command.label_ids = None
                       THEN [ok |-> TRUE, labels |-> {}]
                       ELSE ResolveLabels(lstore, command.label_ids.some, {})
             IN IF ~rl.ok
                THEN {[result |-> rl.error, store |-> store]}
                ELSE LET todo == [found.some EXCEPT !.todo_text = text.value,
                                                    !.completed = completed,
                                                    !.labels = rl.labels]
                     IN {[result |-> AppOk(TodoData(todo)),
                          store |-> TodoRepoSave(store, todo).store]}

TodoUpdateHandle(store, lstore, command) ==
    LET id == UuidParse(command.todo_id)
    IN IF ~id.ok
       THEN {[result |-> Illegal("IllegalTodoId", id.err), store |-> store]}
       ELSE
       LET found == TodoRepoFind(store, id.value)
       IN IF found = None
          THEN {[result |-> NotFound("TodoNotFound", id.value), store |-> store]}
          ELSE
          LET text == IF command.todo_text = None
                      THEN Ok(found.some.todo_text)
                      ELSE TodoTextNew(command.todo_text.some)
          IN IF ~text.ok
             THEN {[result |-> Illegal("IllegalArgumentError", text.err), store |-> store]}
             ELSE
             LET completed == IF command.completed = None
                              THEN found.some.completed
                              ELSE command.completed.some
                 rl == IF command.label_ids = None
                       THEN [ok |-> TRUE, labels |-> found.some.labels]
                       ELSE ResolveLabels(lstore, command.label_ids.some, {})
             IN IF ~rl.ok
                THEN {[result |-> rl.error, store |-> store]}
                ELSE LET todo == [found.some EXCEPT !.todo_text = text.value,
                                                    !.completed = completed,
                                                    !.labels = rl.labels]
                     IN {[result |-> AppOk(TodoData(todo)),
                          store |-> TodoRepoSave(store, todo).store]}

TodoDeleteHandle(store, command) ==
    LET id == UuidParse(command.todo_id)
    IN IF ~id.ok
       THEN {[result |-> Illegal("IllegalTodoId", id.err), store |-> store]}
       ELSE
       LET found == TodoRepoFind(store, id.value)
       IN IF found = None
          THEN {[result |-> NotFound("TodoNotFound", id.value), store |-> store]}
          ELSE
          LET r == TodoRepoDelete(store, found.some)
          IN IF r.result = OkUnit
             THEN {[result |-> AppOkUnit, store |-> r.store]}
             ELSE {[result |-> NotFound("TodoNotFound", r.result.err.id), store |-> r.store]}

\* ------------------------------------------- HTTP handlers: status codes
LabelCreateStatus(kind) ==
    CASE kind = "Ok" -> 201
      [] kind \in {"DuplicatedLabel", "IllegalArgumentError", "IllegalLabelId"} -> 400
      [] kind \in {"LabelNotFound", "Unexpected"} -> 500

LabelGetStatus(kind) ==
    CASE kind = "Ok" -> 200
      [] kind = "IllegalLabelId" -> 400
      [] kind = "LabelNotFound" -> 404
      [] kind \in {"DuplicatedLabel", "IllegalArgumentError", "Unexpected"} -> 500

LabelGetAllStatus(kind) ==
    CASE kind = "Ok" -> 200
      [] kind \in {"DuplicatedLabel", "IllegalArgumentError", "IllegalLabelId",
                   "LabelNotFound", "Unexpected"} -> 500

LabelUpdateStatus(kind) ==
    CASE kind = "Ok" -> 200
      [] kind \in {"DuplicatedLabel", "IllegalArgumentError", "IllegalLabelId"} -> 400
      [] kind = "LabelNotFound" -> 404
      [] kind = "Unexpected" -> 500

LabelDeleteStatus(kind) ==
    CASE kind = "Ok" -> 204
      [] kind = "IllegalLabelId" -> 400
      [] kind = "LabelNotFound" -> 404
      [] kind \in {"DuplicatedLabel", "IllegalArgumentError", "Unexpected"} -> 500

UserCreateStatus(kind) ==
    CASE kind = "Ok" -> 201
      [] kind \in {"DuplicatedUser", "IllegalArgumentError", "IllegalUserId"} -> 400
      [] kind \in {"UserNotFound", "Unexpected"} -> 500

UserGetStatus(kind) ==
    CASE kind = "Ok" -> 200
      [] kind = "IllegalUserId" -> 400
      [] kind = "UserNotFound" -> 404
      [] kind \in {"DuplicatedUser", "IllegalArgumentError", "Unexpected"} -> 500

UserGetAllStatus(kind) ==
    CASE kind = "Ok" -> 200
      [] kind \in {"DuplicatedUser", "IllegalArgumentError", "IllegalUserId",
                   "UserNotFound", "Unexpected"} -> 500

UserUpdateStatus(kind) ==
    CASE kind = "Ok" -> 200
      [] kind \in {"DuplicatedUser", "IllegalArgumentError", "IllegalUserId"} -> 400
      [] kind = "UserNotFound" -> 404
      [] kind = "Unexpected" -> 500

UserDeleteStatus(kind) ==
    CASE kind = "Ok" -> 204
      [] kind = "IllegalUserId" -> 400
      [] kind = "UserNotFound" -> 404
      [] kind \in {"DuplicatedUser", "IllegalArgumentError", "Unexpected"} -> 500

TodoCreateStatus(kind) ==
    CASE kind = "Ok" -> 201
      [] kind \in {"DuplicatedTodo", "IllegalArgumentError", "IllegalTodoId",
                   "LabelNotFound", "IllegalLabelId"} -> 400
      [] kind \in {"TodoNotFound", "Unexpected"} -> 500

TodoGetStatus(kind) ==
    CASE kind = "Ok" -> 200
      [] kind = "IllegalTodoId" -> 400
      [] kind = "TodoNotFound" -> 404
      [] kind \in {"DuplicatedTodo", "IllegalArgumentError", "Unexpected",
                   "LabelNotFound", "IllegalLabelId"} -> 500

TodoGetAllStatus(kind) ==
    CASE kind = "Ok" -> 200
      [] kind \in {"DuplicatedTodo", "IllegalArgumentError", "IllegalTodoId",
                   "TodoNotFound", "Unexpected", "LabelNotFound",
                   "IllegalLabelId"} -> 500

TodoUpdateStatus_NotFound500(kind) ==
    CASE kind = "Ok" -> 200
      [] kind \in {"DuplicatedTodo", "IllegalArgumentError", "IllegalTodoId",
                   "LabelNotFound", "IllegalLabelId"} -> 400
      [] kind \in {"TodoNotFound", "Unexpected"} -> 500

TodoUpdateStatus(kind) ==
    CASE kind = "Ok" -> 200
      [] kind \in {"DuplicatedTodo", "IllegalArgumentError", "IllegalTodoId",
                   "LabelNotFound", "IllegalLabelId"} -> 400
      [] kind = "TodoNotFound" -> 404
      [] kind = "Unexpected" -> 500

TodoDeleteStatus(kind) ==
    CASE kind = "Ok" -> 204
      [] kind = "IllegalTodoId" -> 400
      [] kind = "TodoNotFound" -> 404
      [] kind \in {"DuplicatedTodo", "IllegalArgumentError", "Unexpected",
                   "LabelNotFound", "IllegalLabelId"} -> 500

\* --------------------------------- requests handled one at a time (Spec)
\* Each action is one HTTP request: the handler builds the command, the
\* application service runs to completion, the handler maps the result to a
\* status code.  last holds the request and its response until Reply.
\* inputs: for each field an invalid string and two valid ones (the length
\* ranges themselves are covered by SpecVO); label ids in a todo command name
\* the first uuid (a stored label or not) or are malformed
LabelNameInputs ==
    {Str(0, 1), Str(1, 1), Str(LabelNameMaxLen - 1, 1), Str(LabelNameMaxLen, 1)}
UserNameInputs ==
    {Str(UserNameMinLen - 1, 1), Str(UserNameMinLen, 1), Str(UserNameMinLen, 2),
     Str(UserNameMaxLen, 1)}
TextInputs ==
    {Str(0, 1), Str(1, 1), Str(TodoTextMaxLen - 1, 1), Str(TodoTextMaxLen, 1)}
SeqsUpTo(S, n) == UNION {[1..k -> S] : k \in 0..n}
LabelIdInputs == {IdStr(1), MalformedId}
LabelIdLists == SeqsUpTo(LabelIdInputs, MaxLabelIds)
OptionOf(S) == {None} \cup {Some(x) : x \in S}

Init ==
    /\ InitIdle
    /\ voInput = None
    /\ voResult = None

Handled(handler, command, result, status) ==
    [handler |-> handler, command |-> command, result |-> result, status |-> status]

LabelCreate(name) ==
    /\ last = None
    /\ nextUuid < MaxUuid
    /\ LET command == [label_name |-> name]
       IN \E o \in LabelCreateHandle(labelStore, command, NewUuid) :
            /\ labelStore' = o.store
            /\ nextUuid' = IF o.result.kind = "Ok" THEN NewUuid ELSE nextUuid
            /\ last' = Handled("label_create", command, o.result,
                               LabelCreateStatus(o.result.kind))
    /\ UNCHANGED <<userStore, todoStore, voVars, concVars, pgVars, v1Vars>>

LabelGet(id) ==
    /\ last = None
    /\ LET command == [label_id |-> id]
       IN \E o \in LabelGetHandle(labelStore, command) :
            /\ labelStore' = o.store
            /\ last' = Handled("label_get", command, o.result,
                               LabelGetStatus(o.result.kind))
    /\ UNCHANGED <<userStore, todoStore, nextUuid, voVars, concVars, pgVars, v1Vars>>

LabelGetAll ==
    /\ last = None
    /\ \E o \in LabelGetAllHandle(labelStore) :
            /\ labelStore' = o.store
            /\ last' = Handled("label_get_all", None, o.result,
                               LabelGetAllStatus(o.result.kind))
    /\ UNCHANGED <<userStore, todoStore, nextUuid, voVars, concVars, pgVars, v1Vars>>

LabelUpdate(id, name) ==
    /\ last = None
    /\ LET command == [label_id |-> id, label_name |-> name]
       IN \E o \in LabelUpdateHandle(labelStore, command) :
            /\ labelStore' = o.store
            /\ last' = Handled("label_update", command, o.result,
                               LabelUpdateStatus(o.result.kind))
    /\ UNCHANGED <<userStore, todoStore, nextUuid, voVars, concVars, pgVars, v1Vars>>

LabelDelete(id) ==
    /\ last = None
    /\ LET command == [label_id |-> id]
       IN \E o \in LabelDeleteHandle(labelStore, command) :
            /\ labelStore' = o.store
            /\ last' = Handled("label_delete", command, o.result,
                               LabelDeleteStatus(o.result.kind))
    /\ UNCHANGED <<userStore, todoStore, nextUuid, voVars, concVars, pgVars, v1Vars>>

UserCreate(name) ==
    /\ last = None
    /\ nextUuid < MaxUuid
    /\ LET command == [user_name |-> name]
       IN \E o \in UserCreateHandle(userStore, command, NewUuid) :
            /\ userStore' = o.store
            /\ nextUuid' = IF o.result.kind = "Ok" THEN NewUuid ELSE nextUuid
            /\ last' = Handled("user_create", command, o.result,
                               UserCreateStatus(o.result.kind))
    /\ UNCHANGED <<labelStore, todoStore, voVars, concVars, pgVars, v1Vars>>

UserGet(id) ==
    /\ last = None
    /\ LET command == [user_id |-> id]
       IN \E o \in UserGetHandle(userStore, command) :
            /\ userStore' = o.store
            /\ last' = Handled("user_get", command, o.result,
                               UserGetStatus(o.result.kind))
    /\ UNCHANGED <<labelStore, todoStore, nextUuid, voVars, concVars, pgVars, v1Vars>>

UserGetAll ==
    /\ last = None
    /\ \E o \in UserGetAllHandle(userStore) :
            /\ userStore' = o.store
            /\ last' = Handled("user_get_all", None, o.result,
                               UserGetAllStatus(o.result.kind))
    /\ UNCHANGED <<labelStore, todoStore, nextUuid, voVars, concVars, pgVars, v1Vars>>

UserUpdate(id, name) ==
    /\ last = None
    /\ LET command == [user_id |-> id, user_name |-> name]
       IN \E o \in UserUpdateHandle(userStore, command) :
            /\ userStore' = o.store
            /\ last' = Handled("user_update", command, o.result,
                               UserUpdateStatus(o.result.kind))
    /\ UNCHANGED <<labelStore, todoStore, nextUuid, voVars, concVars, pgVars, v1Vars>>

UserDelete(id) ==
    /\ last = None
    /\ LET command == [user_id |-> id]
       IN \E o \in UserDeleteHandle(userStore, command) :
            /\ userStore' = o.store
            /\ last' = Handled("user_delete", command, o.result,
                               UserDeleteStatus(o.result.kind))
    /\ UNCHANGED <<labelStore, todoStore, nextUuid, voVars, concVars, pgVars, v1Vars>>

TodoCreate(text, label_ids) ==
    /\ last = None
    /\ nextUuid < MaxUuid
    /\ LET command == [todo_text |-> text, label_ids |-> label_ids]
       IN \E o \in TodoCreateHandle(todoStore, labelStore, command, NewUuid) :
            /\ todoStore' = o.store
            /\ nextUuid' = IF o.result.kind = "Ok" THEN NewUuid ELSE nextUuid
            /\ last' = Handled("todo_create", command, o.result,
                               TodoCreateStatus(o.result.kind))
    /\ UNCHANGED <<labelStore, userStore, voVars, concVars, pgVars, v1Vars>>

TodoGet(id) ==
    /\ last = None
    /\ LET command == [todo_id |-> id]
       IN \E o \in TodoGetHandle(todoStore, command) :
            /\ todoStore' = o.store
            /\ last' = Handled("todo_get", command, o.result,
                               TodoGetStatus(o.result.kind))
    /\ UNCHANGED <<labelStore, userStore, nextUuid, voVars, concVars, pgVars, v1Vars>>

TodoGetAll ==
    /\ last = None
    /\ \E o \in TodoGetAllHandle(todoStore) :
            /\ todoStore' = o.store
            /\ last' = Handled("todo_get_all", None, o.result,
                               TodoGetAllStatus(o.result.kind))
    /\ UNCHANGED <<labelStore, userStore, nextUuid, voVars, concVars, pgVars, v1Vars>>

TodoUpdate(id, text, completed, label_ids) ==
    /\ last = None
    /\ LET command == [todo_id |-> id, todo_text |-> text,
                       completed |-> completed, label_ids |-> label_ids]
       IN \E o \in TodoUpdateHandle(todoStore, labelStore, command) :
            /\ todoStore' = o.store
            /\ last' = Handled("todo_update", command, o.result,
                               TodoUpdateStatus(o.result.kind))
    /\ UNCHANGED <<labelStore, userStore, nextUuid, voVars, concVars, pgVars, v1Vars>>

TodoDelete(id) ==
    /\ last = None
    /\ LET command == [todo_id |-> id]
       IN \E o \in TodoDeleteHandle(todoStore, command) :
            /\ todoStore' = o.store
            /\ last' = Handled("todo_delete", command, o.result,
                               TodoDeleteStatus(o.result.kind))
    /\ UNCHANGED <<labelStore, userStore, nextUuid, voVars, concVars, pgVars, v1Vars>>

\* the response has been sent; the server is ready for the next request
Reply ==
    /\ last # None
    /\ last' = None
    /\ UNCHANGED <<labelStore, userStore, todoStore, nextUuid, voVars, concVars, pgVars, v1Vars>>

Next ==
    \/ \E name \in LabelNameInputs : LabelCreate(name)
    \/ \E id \in IdStrings : LabelGet(id)
    \/ LabelGetAll
    \/ \E id \in IdStrings, name \in OptionOf(LabelNameInputs) : LabelUpdate(id, name)
    \/ \E id \in IdStrings : LabelDelete(id)
    \/ \E name \in UserNameInputs : UserCreate(name)
    \/ \E id \in IdStrings : UserGet(id)
    \/ UserGetAll
    \/ \E id \in IdStrings, name \in OptionOf(UserNameInputs) : UserUpdate(id, name)
    \/ \E id \in IdStrings : UserDelete(id)
    \/ \E text \in TextInputs, label_ids \in LabelIdLists : TodoCreate(text, label_ids)
    \/ \E id \in IdStrings : TodoGet(id)
    \/ TodoGetAll
    \/ \E id \in IdStrings, text \in OptionOf(TextInputs),
          completed \in OptionOf(BOOLEAN), label_ids \in OptionOf(LabelIdLists) :
          TodoUpdate(id, text, completed, label_ids)
    \/ \E id \in IdStrings : TodoDelete(id)
    \/ Reply

Spec == Init /\ [][Next]_vars

\* ----------------------------------------------------- claims under Spec
\* a step that handles a request of the given handler
Handles(handler) == last = None /\ last' # None /\ last'.handler = handler

LabelNameHeld(name) == \E l \in MapValues(labelStore) : Value(l.label_name) = name
UserNameHeld(name) == \E u \in MapValues(userStore) : Value(u.user_name) = name

AddsOne(before, after) ==
    /\ Size(after) = Size(before) + 1
    /\ \A k \in DOMAIN before : k \in DOMAIN after /\ after[k] = before[k]

C3_UpdateSameName ==
    [][/\ Handles("label_update") =>
            LET id == UuidParse(last'.command.label_id)
                name == last'.command.label_name
            IN (/\ id.ok
                /\ id.value \in DOMAIN labelStore
                /\ \/ name = None
                   \/ name.some = Value(labelStore[id.value].label_name))
               => last'.result.kind # "DuplicatedLabel"
       /\ Handles("user_update") =>
            LET id == UuidParse(last'.command.user_id)
                name == last'.command.user_name
            IN (/\ id.ok
                /\ id.value \in DOMAIN userStore
                /\ \/ name = None
                   \/ name.some = Value(userStore[id.value].user_name))
               => last'.result.kind # "DuplicatedUser"
      ]_vars

\* an update that carries no name succeeded while another label is stored
C3_Witness ==
    /\ last # None
    /\ last.handler = "label_update"
    /\ last.command.label_name = None
    /\ last.result.kind = "Ok"
    /\ Size(labelStore) = 2

\* C7: with requests handled one at a time, a command that returns an error
\* leaves every in-memory store exactly as it was.
C7_ErrorLeavesStores ==
    [][(last = None /\ last' # None /\ last'.result.kind # "Ok") =>
          /\ labelStore' = labelStore
          /\ userStore' = userStore
          /\ todoStore' = todoStore
      ]_vars

\* an update of a stored todo failed on an unknown label id after a new text
\* and a new completed flag had been accepted
C7_Witness ==
    /\ last # None
    /\ last.handler = "todo_update"
    /\ last.result.kind = "LabelNotFound"
    /\ last.command.todo_text # None
    /\ last.command.completed # None

NotFoundKinds == {"TodoNotFound", "LabelNotFound", "UserNotFound"}

UpdateWithBadField(handler, idField, valueField, New(_)) ==
    /\ Handles(handler)
    /\ UuidParse(last'.command[idField]).ok
    /\ last'.command[valueField] # None
    /\ ~New(last'.command[valueField].some).ok

\* C9 as stated: such a command fails with the illegal-argument error even
\* when its id is not stored.
C9_ValidateBeforeLookup ==
    [][/\ UpdateWithBadField("label_update", "label_id", "label_name", LabelNameNew)
            => last'.result.kind = "IllegalArgumentError"
       /\ UpdateWithBadField("user_update", "user_id", "user_name", UserNameNew)
            => last'.result.kind = "IllegalArgumentError"
       /\ UpdateWithBadField("todo_update", "todo_id", "todo_text", TodoTextNew)
            => last'.result.kind = "IllegalArgumentError"
      ]_vars

\* C9 amended: an update command parses its id, looks the entity up and only
\* then validates the new name or text: with an id that is not stored it
\* fails with the not-found error, with a stored id with the illegal-argument
\* error.
C9_LookupBeforeValidate ==
    [][/\ UpdateWithBadField("label_update", "label_id", "label_name", LabelNameNew)
            => last'.result.kind =
                 IF UuidParse(last'.command.label_id).value \in DOMAIN labelStore
                 THEN "IllegalArgumentError" ELSE "LabelNotFound"
       /\ UpdateWithBadField("user_update", "user_id", "user_name", UserNameNew)
            => last'.result.kind =
                 IF UuidParse(last'.command.user_id).value \in DOMAIN userStore
                 THEN "IllegalArgumentError" ELSE "UserNotFound"
       /\ UpdateWithBadField("todo_update", "todo_id", "todo_text", TodoTextNew)
            => last'.result.kind =
                 IF UuidParse(last'.command.todo_id).value \in DOMAIN todoStore
                 THEN "IllegalArgumentError" ELSE "TodoNotFound"
      ]_vars

\* an update with an unknown id and an empty name was answered not-found
C9_Witness ==
    /\ last # None
    /\ last.handler = "label_update"
    /\ last.command.label_name = Some(Str(0, 1))
    /\ last.result.kind = "LabelNotFound"

\* ------------------------------------------- concurrent specification
\* Label commands run as NumProcs tasks in parallel against one
\* InMemoryLabelRepository. A task's step is one repository call split where
\* the RwLock guard is taken: the call waits for the guard, then works on the
\* map and drops the guard as it returns.
Procs == 1..NumProcs

NoHolder == [writers |-> {}, readers |-> {}]

\* RwLock::write is granted when nobody holds the lock
CanWrite_IgnoreReaders(l) == l.writers = {}

CanWrite_IgnoreWriters(l) == l.readers = {}

CanWrite(l) == l.writers = {} /\ l.readers = {}

\* RwLock::read is granted when no writer holds the lock
CanRead(l) == l.writers = {}

ConcNameInputs == {Str(0, 1), Str(1, 1)}

InitConc ==
    /\ labelStore = << >>
    /\ userStore = << >>
    /\ todoStore = << >>
    /\ nextUuid = 0
    /\ last = None
    /\ voInput = None
    /\ voResult = None
    /\ lock = NoHolder
    /\ todoLock = NoHolder
    /\ pc = [p \in Procs |-> "idle"]
    /\ task = [p \in Procs |-> None]
    /\ answered = 0
    /\ pgLabels = << >>
    /\ pgTodos = << >>
    /\ pgTodoLabels = {}
    /\ dbData = << >>
    /\ dbLock = NoHolder
    /\ creates = 0
    /\ deleted = FALSE

ConcUnchanged ==
    UNCHANGED <<userStore, todoStore, todoLock, answered, last, voInput, voResult,
                pgVars, v1Vars>>

Done(p, t, result) ==
    /\ pc' = [pc EXCEPT ![p] = "done"]
    /\ task' = [task EXCEPT ![p] = [op |-> t.op, command |-> t.command,
                                    result |-> result]]

\* LabelCreateApplicationService::handle up to its first repository call
ConcCreateBegin(p, name) ==
    /\ pc[p] = "idle"
    /\ nextUuid < MaxUuid
    /\ LET command == [label_name |-> name]
           nm == LabelNameNew(name)
       IN IF ~nm.ok
          THEN /\ Done(p, [op |-> "create", command |-> command],
                       Illegal("IllegalArgumentError", nm.err))
               /\ nextUuid' = nextUuid
          ELSE /\ pc' = [pc EXCEPT ![p] = "find_by_name"]
               /\ task' = [task EXCEPT ![p] =
                              [op |-> "create", command |-> command,
                               label |-> Label(NewUuid, nm.value)]]
               /\ nextUuid' = NewUuid
    /\ UNCHANGED <<labelStore, lock>>
    /\ ConcUnchanged

\* LabelGetApplicationService::handle / LabelDeleteApplicationService::handle
\* up to the first repository call
ConcFindBegin(p, op, id) ==
    /\ pc[p] = "idle"
    /\ LET command == [label_id |-> id]
           parsed == UuidParse(id)
       IN IF ~parsed.ok
          THEN Done(p, [op |-> op, command |-> command],
                    Illegal("IllegalLabelId", parsed.err))
          ELSE /\ pc' = [pc EXCEPT ![p] = "find"]
               /\ task' = [task EXCEPT ![p] =
                              [op |-> op, command |-> command, id |-> parsed.value]]
    /\ UNCHANGED <<labelStore, nextUuid, lock>>
    /\ ConcUnchanged

\* LabelGetAllApplicationService::handle up to its repository call
ConcGetAllBegin(p) ==
    /\ pc[p] = "idle"
    /\ pc' = [pc EXCEPT ![p] = "find_all"]
    /\ task' = [task EXCEPT ![p] = [op |-> "get_all", command |-> [all |-> TRUE]]]
    /\ UNCHANGED <<labelStore, nextUuid, lock>>
    /\ ConcUnchanged

\* read_store_ref: the task becomes one of the readers
AcquireRead(p) ==
    /\ pc[p] \in {"find_by_name", "find", "find_all"}
    /\ CanRead(lock)
    /\ lock' = [lock EXCEPT !.readers = @ \cup {p}]
    /\ pc' = [pc EXCEPT ![p] = CASE pc[p] = "find" -> "in_find"
                                  [] pc[p] = "find_by_name" -> "in_find_by_name"
                                  [] pc[p] = "find_all" -> "in_find_all"]
    /\ UNCHANGED <<labelStore, nextUuid, task>>
    /\ ConcUnchanged

\* write_store_ref: the task becomes the writer
AcquireWrite(p) ==
    /\ pc[p] \in {"save", "delete"}
    /\ CanWrite(lock)
    /\ lock' = [lock EXCEPT !.writers = @ \cup {p}]
    /\ pc' = [pc EXCEPT ![p] = IF pc[p] = "save" THEN "in_save" ELSE "in_delete"]
    /\ UNCHANGED <<labelStore, nextUuid, task>>
    /\ ConcUnchanged

\* find_by_name under the read guard, then LabelService::is_duplicated
ConcFindByName(p) ==
    /\ pc[p] = "in_find_by_name"
    /\ lock' = [lock EXCEPT !.readers = @ \ {p}]
    /\ \E sr \in LabelRepoFindByName(labelStore, task[p].label.label_name) :
          IF LabelIsDuplicated(sr, task[p].label)
          THEN Done(p, task[p], Duplicated("DuplicatedLabel", task[p].label))
          ELSE /\ pc' = [pc EXCEPT ![p] = "save"]
               /\ task' = task
    /\ UNCHANGED <<labelStore, nextUuid>>
    /\ ConcUnchanged

\* find under the read guard, for get and delete
ConcFind(p) ==
    /\ pc[p] = "in_find"
    /\ lock' = [lock EXCEPT !.readers = @ \ {p}]
    /\ LET found == LabelRepoFind(labelStore, task[p].id)
       IN IF found = None
          THEN Done(p, task[p], NotFound("LabelNotFound", task[p].id))
          ELSE IF task[p].op = "get"
          THEN Done(p, task[p], AppOk(LabelData(found.some)))
          ELSE /\ pc' = [pc EXCEPT ![p] = "delete"]
               /\ task' = [task EXCEPT ![p] =
                              [op |-> "delete", command |-> task[p].command,
                               label |-> found.some]]
    /\ UNCHANGED <<labelStore, nextUuid>>
    /\ ConcUnchanged

\* find_all under the read guard
ConcFindAll(p) ==
    /\ pc[p] = "in_find_all"
    /\ lock' = [lock EXCEPT !.readers = @ \ {p}]
    /\ Done(p, task[p], AppOkAll({LabelData(l) : l \in LabelRepoFindAll(labelStore)}))
    /\ UNCHANGED <<labelStore, nextUuid>>
    /\ ConcUnchanged

\* save under the write guard
ConcSave(p) ==
    /\ pc[p] = "in_save"
    /\ lock' = [lock EXCEPT !.writers = @ \ {p}]
    /\ labelStore' = LabelRepoSave(labelStore, task[p].label).store
    /\ Done(p, task[p], AppOk(LabelData(task[p].label)))
    /\ UNCHANGED nextUuid
    /\ ConcUnchanged

\* delete under the write guard
ConcDelete(p) ==
    /\ pc[p] = "in_delete"
    /\ lock' = [lock EXCEPT !.writers = @ \ {p}]
    /\ LET r == LabelRepoDelete(labelStore, task[p].label)
       IN /\ labelStore' = r.store
          /\ IF r.result = OkUnit
             THEN Done(p, task[p], AppOkUnit)
             ELSE Done(p, task[p], NotFound("LabelNotFound", r.result.err.id))
    /\ UNCHANGED nextUuid
    /\ ConcUnchanged

\* the handler has answered; the task is free for the next request
ConcRespond(p) ==
    /\ pc[p] = "done"
    /\ pc' = [pc EXCEPT ![p] = "idle"]
    /\ task' = [task EXCEPT ![p] = None]
    /\ UNCHANGED <<labelStore, nextUuid, lock>>
    /\ ConcUnchanged

NextConc ==
    \/ \E p \in Procs, name \in ConcNameInputs : ConcCreateBegin(p, name)
    \/ \E p \in Procs, op \in {"get", "delete"}, id \in LabelIdInputs :
          ConcFindBegin(p, op, id)
    \/ \E p \in Procs : ConcGetAllBegin(p)
    \/ \E p \in Procs : AcquireRead(p)
    \/ \E p \in Procs : AcquireWrite(p)
    \/ \E p \in Procs : ConcFindByName(p)
    \/ \E p \in Procs : ConcFind(p)
    \/ \E p \in Procs : ConcFindAll(p)
    \/ \E p \in Procs : ConcSave(p)
    \/ \E p \in Procs : ConcDelete(p)
    \/ \E p \in Procs : ConcRespond(p)

SpecConc == InitConc /\ [][NextConc]_vars

\* ------------------------------------------------ claims under SpecConc
\* the stored labels that hold the name of label l under another id
SameNameOthers(store, l) ==
    {x \in MapValues(store) : x.label_name = l.label_name /\ x.label_id # l.label_id}

\* C2: two concurrent creates with the same valid name can both pass
\* is_duplicated and both save: the save of a create that has passed the check
\* goes through although another label has taken the name in the meantime, and
\* the store then holds both labels, same name and different ids.
C2_ConcurrentCreateRace ==
    [][\A p \in Procs :
          (pc[p] = "in_save" /\ pc'[p] = "done") =>
             /\ task'[p].result.kind = "Ok"
             /\ task[p].label \in MapValues(labelStore')
             /\ SameNameOthers(labelStore, task[p].label)
                   = SameNameOthers(labelStore', task[p].label)
      ]_vars

\* both creates of one name have answered Ok and both labels are stored
C2_Witness ==
    \E p, q \in Procs :
       /\ p # q
       /\ pc[p] = "done" /\ pc[q] = "done"
       /\ task[p].op = "create" /\ task[q].op = "create"
       /\ task[p].command = task[q].command
       /\ task[p].result.kind = "Ok" /\ task[q].result.kind = "Ok"
       /\ task[p].result.data.label_id # task[q].result.data.label_id
       /\ \E a, b \in MapValues(labelStore) :
             /\ a.label_id = task[p].result.data.label_id
             /\ b.label_id = task[q].result.data.label_id
             /\ a.label_name = b.label_name

Holding(pcs) == {p \in Procs : pc[p] \in pcs}

LockHolders ==
    /\ Cardinality(lock.writers) <= 1
    /\ lock.writers # {} => lock.readers = {}
    /\ lock.writers = Holding({"in_save", "in_delete"})
    /\ lock.readers = Holding({"in_find", "in_find_by_name", "in_find_all"})

\* C6: the store's lock has no holder, or exactly one writer (save, delete),
\* or one or more readers (find, find_all, find_by_name), never a writer together with
\* a reader or with a second writer; and the map changes only in a step of
\* the task that holds the lock as writer.
C6_LockDiscipline ==
    /\ []LockHolders
    /\ [][labelStore' # labelStore =>
             \E p \in Procs : lock.writers = {p} /\ pc'[p] = "done"]_vars

\* a writer holds the lock while another task waits for it
C6_Witness ==
    \E p, q \in Procs :
       /\ lock.writers = {p}
       /\ pc[p] = "in_save"
       /\ pc[q] \in {"find", "find_by_name", "find_all", "save", "delete"}

\* two tasks read together
C6_WitnessReaders == Cardinality(lock.readers) >= 2

\* the delete commands that have answered Ok for the id string
DeletedOk(id) ==
    {p \in Procs : /\ pc[p] = "done"
                   /\ task[p].op = "delete"
                   /\ task[p].command.label_id = id
                   /\ task[p].result.kind = "Ok"}

\* the id a delete command is about, at its find or at its delete
DeleteTarget(p) ==
    IF pc[p] = "in_find" THEN task[p].id ELSE task[p].label.label_id

\* C25: of the delete commands that run concurrently for one stored id, one
\* answers Ok and removes the entry, and every other one answers with the
\* not-found error, never Unexpected, whether its find sees the entry gone or
\* its find still sees it and the repository's delete does not.
C25_ConcurrentDelete ==
    /\ [](\A id \in LabelIdInputs : Cardinality(DeletedOk(id)) <= 1)
    /\ [][\A p \in Procs :
             (pc[p] \in {"in_find", "in_delete"} /\ task[p].op = "delete"
                 /\ pc'[p] = "done") =>
                /\ task'[p].result.kind \in {"Ok", "LabelNotFound"}
                /\ task'[p].result.kind = "Ok" <=>
                      (pc[p] = "in_delete" /\ DeleteTarget(p) \in DOMAIN labelStore)
                /\ DeleteTarget(p) \notin DOMAIN labelStore'
         ]_vars

\* one delete has answered Ok and the other, whose find saw the label, is
\* inside the repository's delete and does not find it
C25_Witness ==
    \E p, q \in Procs :
       /\ pc[p] = "done" /\ task[p].op = "delete" /\ task[p].result.kind = "Ok"
       /\ pc[q] = "in_delete"
       /\ task[q].command = task[p].command
       /\ DeleteTarget(q) \notin DOMAIN labelStore

\* ------------------------------------------------ further claims under Spec
\* the ids a label_ids list names
IdsOf(label_ids) == {UuidParse(label_ids[i]).value : i \in DOMAIN label_ids}

\* C11: a successful todo update changes exactly the fields present in the
\* command: an absent text, completed or label_ids keeps the stored value, a
\* present one is taken from the command, the id and every other todo stay
\* as they were, and the response is the data of the todo stored after the
\* save.
C11_TodoUpdateFrame ==
    [][(Handles("todo_update") /\ last'.result.kind = "Ok") =>
          LET c == last'.command
              id == UuidParse(c.todo_id).value
              old == todoStore[id]
              new == todoStore'[id]
          IN /\ DOMAIN todoStore' = DOMAIN todoStore
             /\ \A k \in DOMAIN todoStore \ {id} : todoStore'[k] = todoStore[k]
             /\ new.todo_id = id
             /\ IF c.todo_text = None
                THEN new.todo_text = old.todo_text
                ELSE Value(new.todo_text) = c.todo_text.some
             /\ IF c.completed = None
                THEN new.completed = old.completed
                ELSE new.completed = c.completed.some
             /\ IF c.label_ids = None
                THEN new.labels = old.labels
                ELSE new.labels = {labelStore[i] : i \in IdsOf(c.label_ids.some)}
             /\ last'.result.data = TodoData(new)
      ]_vars

\* an update carrying only completed = true succeeded on a todo that has a
\* label
C11_Witness ==
    /\ last # None
    /\ last.handler = "todo_update"
    /\ last.result.kind = "Ok"
    /\ last.command.todo_text = None
    /\ last.command.completed = Some(TRUE)
    /\ last.command.label_ids = None
    /\ last.result.data.labels # {}

\* C13: with requests handled one at a time, an update that sets the name of
\* stored entity A to the name held by another stored entity B fails with
\* Duplicated and leaves the store, so A's and B's names, as it was.
C13_UpdateToTakenName ==
    [][/\ Handles("label_update") =>
            LET id == UuidParse(last'.command.label_id)
                name == last'.command.label_name
            IN (/\ id.ok
                /\ id.value \in DOMAIN labelStore
                /\ name # None
                /\ \E b \in DOMAIN labelStore :
                      b # id.value /\ Value(labelStore[b].label_name) = name.some)
               => /\ last'.result.kind = "DuplicatedLabel"
                  /\ labelStore' = labelStore
       /\ Handles("user_update") =>
            LET id == UuidParse(last'.command.user_id)
                name == last'.command.user_name
            IN (/\ id.ok
                /\ id.value \in DOMAIN userStore
                /\ name # None
                /\ \E b \in DOMAIN userStore :
                      b # id.value /\ Value(userStore[b].user_name) = name.some)
               => /\ last'.result.kind = "DuplicatedUser"
                  /\ userStore' = userStore
      ]_vars

\* an update of one of two stored labels was refused as duplicated
C13_Witness ==
    /\ last # None
    /\ last.handler = "label_update"
    /\ last.result.kind = "DuplicatedLabel"
    /\ Size(labelStore) = 2
    /\ \A a, b \in DOMAIN labelStore :
          a # b => labelStore[a].label_name # labelStore[b].label_name

\* C16: a successful todo create stores exactly one new todo, under an id no
\* stored todo had, with the command's text and completed = false, leaves the
\* other todos as they were, and answers with that id, that text and
\* completed = false.
C16_TodoCreateStoresOne ==
    [][(Handles("todo_create") /\ last'.result.kind = "Ok") =>
          LET c == last'.command
              d == last'.result.data
              id == d.todo_id
          IN /\ id \notin DOMAIN todoStore
             /\ DOMAIN todoStore' = DOMAIN todoStore \cup {id}
             /\ AddsOne(todoStore, todoStore')
             /\ todoStore'[id].todo_id = id
             /\ Value(todoStore'[id].todo_text) = c.todo_text
             /\ todoStore'[id].completed = FALSE
             /\ d.todo_text = c.todo_text
             /\ d.completed = FALSE
      ]_vars

\* a todo create succeeded on a store that already held a todo
C16_Witness ==
    /\ last # None
    /\ last.handler = "todo_create"
    /\ last.result.kind = "Ok"
    /\ last.result.data.todo_id \in DOMAIN todoStore
    /\ Size(todoStore) >= 2

\* C17: find_all returns every stored entity once and nothing else, and the
\* get-all command answers with the data of exactly the stored entities, one
\* per entity, and leaves the store as it was.
C17_GetAllIsTheStore ==
    [][/\ Handles("label_get_all") =>
             /\ last'.result = AppOkAll({LabelData(l) : l \in MapValues(labelStore)})
             /\ Cardinality(last'.result.all) = Size(labelStore)
             /\ labelStore' = labelStore
       /\ Handles("user_get_all") =>
             /\ last'.result = AppOkAll({UserData(u) : u \in MapValues(userStore)})
             /\ Cardinality(last'.result.all) = Size(userStore)
             /\ userStore' = userStore
       /\ Handles("todo_get_all") =>
             /\ last'.result = AppOkAll({TodoData(t) : t \in MapValues(todoStore)})
             /\ Cardinality(last'.result.all) = Size(todoStore)
             /\ todoStore' = todoStore
      ]_vars

\* get-all has answered with two labels
C17_Witness ==
    /\ last # None
    /\ last.handler = "label_get_all"
    /\ Cardinality(last.result.all) = 2
    /\ Size(labelStore) = 2

InRange(type, vo) ==
    VoRange(type).lo <= Len8(Value(vo)) /\ Len8(Value(vo)) <= VoRange(type).hi

\* C18: every name or text held by a stored entity, the labels inside the
\* stored todos included, is within the length range of its value-object type
\* (LabelName 1..19, UserName 3..19, TodoText 1..99).
C18_StoredValuesInRange ==
    /\ \A l \in MapValues(labelStore) : InRange("LabelName", l.label_name)
    /\ \A u \in MapValues(userStore) : InRange("UserName", u.user_name)
    /\ \A t \in MapValues(todoStore) :
          /\ InRange("TodoText", t.todo_text)
          /\ \A l \in t.labels : InRange("LabelName", l.label_name)

\* an update with a text of 100 characters was refused and the stored todo
\* still holds a text
C18_Witness ==
    /\ last # None
    /\ last.handler = "todo_update"
    /\ last.command.todo_text # None
    /\ Len8(last.command.todo_text.some) = TodoTextMaxLen
    /\ last.result.kind = "IllegalArgumentError"
    /\ todoStore # << >>

\* C22: with commands handled one at a time from empty stores, no store
\* holds two labels of one name or two users of one name.
C22_NamesUnique ==
    /\ \A a, b \in MapValues(labelStore) : a.label_name = b.label_name => a = b
    /\ \A a, b \in MapValues(userStore) : a.user_name = b.user_name => a = b

\* a second user was refused the name of the first while two users are stored
C22_Witness ==
    /\ last # None
    /\ last.handler = "user_update"
    /\ last.result.kind = "DuplicatedUser"
    /\ Size(userStore) = 2

\* C26: every label in the label set of a stored todo is in the label store
\* under the same id and with the same name.
C26_TodoLabelsStored ==
    \A t \in MapValues(todoStore) :
       \A l \in t.labels :
          /\ l.label_id \in DOMAIN labelStore
          /\ labelStore[l.label_id] = l

\* -------------------------------------------- further claims under SpecRepo
\* C12: is_duplicated(candidate) is false when find_by_name(candidate.name)
\* finds nothing, true when it finds an entity under another id, false when
\* it finds an entity under the candidate's id; only the ids are compared.
C12_IsDuplicated ==
    (last # None /\ last.op = "is_duplicated") =>
       LET e == last.arg
           found == last.result.found
           hits == {l \in MapValues(labelStore) : l.label_name = e.label_name}
       IN /\ (hits = {}) = (found = None)
          /\ found # None => found.some \in hits
          /\ last.result.duplicated =
                (found # None /\ found.some.label_id # e.label_id)

\* the candidate's id is stored under another name, and the name it asks for
\* is held by another id: duplicated
C12_Witness ==
    /\ last # None
    /\ last.op = "is_duplicated"
    /\ last.result.duplicated
    /\ last.arg.label_id \in DOMAIN labelStore
    /\ labelStore[last.arg.label_id].label_name # last.arg.label_name

\* the entity found is the candidate's own record: not duplicated
C12_WitnessSelf ==
    /\ last # None
    /\ last.op = "is_duplicated"
    /\ last.result.found # None
    /\ ~last.result.duplicated

\* ------------------------------------------------- SQL-backed repositories
\* The tables are kept as: labels and todos keyed by their primary key id,
\* todo_labels as a set of (todo_id, label_id) pairs, unique per pair. A
\* todo_labels row refers to an existing todo and an existing label.
Db == [labels |-> pgLabels, todos |-> pgTodos, todo_labels |-> pgTodoLabels]

Unexpected == Err([kind |-> "Unexpected"])

\* rows of todo_labels that belong to one todo
RowsOf(rows, todo_id) == {r \in rows : r[1] = todo_id}

\* a statement that would leave a todo_labels row without its label fails
ForeignKeyHolds(db) ==
    \A r \in db.todo_labels : r[1] \in DOMAIN db.todos /\ r[2] \in DOMAIN db.labels

\* LabelRow::into_label
LabelRowIntoLabel(id, name) ==
    LET nm == LabelNameNew(name)
    IN IF nm.ok THEN Ok(Label(id, nm.value)) ELSE Unexpected

\* insert into labels ... on conflict (id) do update set name
PgLabelSave(db, label) ==
    [result |-> OkUnit,
     db |-> [db EXCEPT !.labels = MapInsert(@, label.label_id, Value(label.label_name))]]

\* select * from labels where id=$1, fetch_optional
PgLabelFind(db, label_id) ==
    IF label_id \in DOMAIN db.labels
    THEN LET l == LabelRowIntoLabel(label_id, db.labels[label_id])
         IN IF l.ok THEN Some(l.value) ELSE l
    ELSE None

\* select * from labels order by id desc
PgLabelFindAll(db) ==
    {LabelRowIntoLabel(id, db.labels[id]).value : id \in DOMAIN db.labels}

\* delete from labels where id=$1, execute: deleting no row is not an error,
\* execute never gives RowNotFound
PgLabelDelete(db, label) ==
    LET after == [db EXCEPT !.labels = MapRemove(@, label.label_id)]
    IN IF ForeignKeyHolds(after)
       THEN [result |-> OkUnit, db |-> after]
       ELSE [result |-> Unexpected, db |-> db]

\* HashSet<Label>::difference. Label hashes id and name but compares ids, so
\* two labels with one id and different names are told apart unless their
\* hashes happen to meet (collide).
LabelSetDifference(a, b, collide) ==
    {x \in a : ~\E y \in b : IF collide THEN LabelEq(x, y) ELSE x = y}

\* the labels joined to a todo's rows
JoinedLabels(db, todo_id) ==
    {Label(r[2], [value |-> db.labels[r[2]]]) :
        r \in {q \in RowsOf(db.todo_labels, todo_id) : q[2] \in DOMAIN db.labels}}

PgTodoSave_AddOnly(db, todo, collide) ==
    LET id == todo.todo_id
        current_labels == JoinedLabels(db, id)
        labels_to_be_added == LabelSetDifference(todo.labels, current_labels, collide)
        after == [db EXCEPT
                    !.todos = MapInsert(@, id, [text |-> Value(todo.todo_text),
                                                completed |-> todo.completed]),
                    !.todo_labels = @ \cup {<<id, l.label_id>> : l \in labels_to_be_added}]
    IN IF ForeignKeyHolds(after)
       THEN [result |-> OkUnit, db |-> after, removed |-> {}]
       ELSE [result |-> Unexpected, db |-> db, removed |-> {}]

\* InternalTodoRepository::save inside PgTodoRepository::save's transaction:
\* upsert the todo, read its current labels, delete the rows of the labels no
\* longer wanted, insert the rows of the new ones; an error rolls back
PgTodoSave(db, todo, collide) ==
    LET id == todo.todo_id
        current_labels == JoinedLabels(db, id)
        labels_to_be_removed == LabelSetDifference(current_labels, todo.labels, collide)
        labels_to_be_added == LabelSetDifference(todo.labels, current_labels, collide)
        after == [db EXCEPT
                    !.todos = MapInsert(@, id, [text |-> Value(todo.todo_text),
                                                completed |-> todo.completed]),
                    !.todo_labels =
                        (@ \ {<<id, l.label_id>> : l \in labels_to_be_removed})
                           \cup {<<id, l.label_id>> : l \in labels_to_be_added}]
    IN IF ForeignKeyHolds(after)
       THEN [result |-> OkUnit, db |-> after, removed |-> labels_to_be_removed]
       ELSE [result |-> Unexpected, db |-> db, removed |-> {}]

\* TodoRow::into_todo / Todo::from_todo_rows over the rows of one todo
TodoFromRows(db, todo_id) ==
    Todo(todo_id, [value |-> db.todos[todo_id].text], db.todos[todo_id].completed,
         JoinedLabels(db, todo_id))

\* select ... from todos left outer join todo_labels left outer join labels
PgTodoFind(db, todo_id) ==
    IF todo_id \in DOMAIN db.todos THEN Some(TodoFromRows(db, todo_id)) ELSE None

PgTodoFindAll(db) == {TodoFromRows(db, id) : id \in DOMAIN db.todos}

\* delete from todo_labels where todo_id=$1; delete from todos where id=$1
PgTodoDelete(db, todo) ==
    [result |-> OkUnit,
     db |-> [db EXCEPT !.todo_labels = @ \ RowsOf(@, todo.todo_id),
                       !.todos = MapRemove(@, todo.todo_id)]]

\* ------------------------------------------------------ SQL specification
\* Direct calls on PgLabelRepository and PgTodoRepository over one database.
\* last keeps the call and its answer until the caller has taken it.
PgLabelInputs ==
    {Label(i, n) : i \in Uuids, n \in {[value |-> Str(1, 1)], [value |-> Str(1, 2)]}}
\* two todos are enough to tell the rows of one todo from another's
PgTodoIds == {1, 2}
PgTodoInputs ==
    {Todo(i, [value |-> Str(1, 1)], c, ls) :
        i \in PgTodoIds, c \in BOOLEAN,
        ls \in {ls \in SUBSET PgLabelInputs : Cardinality(ls) <= MaxLabelIds}}

InitPg ==
    /\ InitIdle
    /\ voInput = None
    /\ voResult = None

Called(op, arg, result) == [op |-> op, arg |-> arg, result |-> result]

SetDb(db) ==
    /\ pgLabels' = db.labels
    /\ pgTodos' = db.todos
    /\ pgTodoLabels' = db.todo_labels

PgUnchanged ==
    UNCHANGED <<labelStore, userStore, todoStore, nextUuid, voVars, concVars, v1Vars>>

PgLabelRepoSave(e) ==
    /\ last = None
    /\ LET r == PgLabelSave(Db, e)
       IN SetDb(r.db) /\ last' = Called("label_save", e, r.result)
    /\ PgUnchanged

PgLabelRepoFind(id) ==
    /\ last = None
    /\ last' = Called("label_find", id, PgLabelFind(Db, id))
    /\ UNCHANGED pgVars
    /\ PgUnchanged

PgLabelRepoFindAll ==
    /\ last = None
    /\ last' = Called("label_find_all", None, [all |-> PgLabelFindAll(Db)])
    /\ UNCHANGED pgVars
    /\ PgUnchanged

PgLabelRepoDelete(e) ==
    /\ last = None
    /\ LET r == PgLabelDelete(Db, e)
       IN SetDb(r.db) /\ last' = Called("label_delete", e, r.result)
    /\ PgUnchanged

PgTodoRepoSave(t) ==
    /\ last = None
    /\ \E collide \in BOOLEAN :
          LET r == PgTodoSave(Db, t, collide)
          IN /\ SetDb(r.db)
             /\ last' = [op |-> "todo_save", arg |-> t, result |-> r.result,
                         removed |-> r.removed]
    /\ PgUnchanged

PgTodoRepoFind(id) ==
    /\ last = None
    /\ last' = Called("todo_find", id, PgTodoFind(Db, id))
    /\ UNCHANGED pgVars
    /\ PgUnchanged

PgTodoRepoFindAll ==
    /\ last = None
    /\ last' = Called("todo_find_all", None, [all |-> PgTodoFindAll(Db)])
    /\ UNCHANGED pgVars
    /\ PgUnchanged

PgTodoRepoDelete(t) ==
    /\ last = None
    /\ LET r == PgTodoDelete(Db, t)
       IN SetDb(r.db) /\ last' = Called("todo_delete", t, r.result)
    /\ PgUnchanged

\* the caller has taken the answer
PgReturn ==
    /\ last # None
    /\ last' = None
    /\ UNCHANGED pgVars
    /\ PgUnchanged

NextPg ==
    \/ \E e \in PgLabelInputs : PgLabelRepoSave(e)
    \/ \E id \in Uuids : PgLabelRepoFind(id)
    \/ PgLabelRepoFindAll
    \/ \E e \in PgLabelInputs : PgLabelRepoDelete(e)
    \/ \E t \in PgTodoInputs : PgTodoRepoSave(t)
    \/ \E id \in PgTodoIds : PgTodoRepoFind(id)
    \/ PgTodoRepoFindAll
    \/ \E t \in PgTodoInputs : PgTodoRepoDelete(t)
    \/ PgReturn

SpecPg == InitPg /\ [][NextPg]_vars

\* what the in-memory repositories would hold after the same calls, read off
\* the tables
DbNext == [labels |-> pgLabels', todos |-> pgTodos', todo_labels |-> pgTodoLabels']
AsLabelStore(db) == [id \in DOMAIN db.labels |-> Label(id, [value |-> db.labels[id]])]
AsTodoStore(db) == [id \in DOMAIN db.todos |-> TodoFromRows(db, id)]

PgCall(op) == last = None /\ last' # None /\ last'.op = op

\* C14 as stated: each SQL-backed save, find and delete answers as the
\* in-memory repository holding the same entities answers, and leaves the
\* same entities stored; in particular a delete of an id that has no row
\* answers NotFound(id).
C14_PgSameAsInMemory ==
    [][/\ PgCall("label_save") =>
            LET mem == LabelRepoSave(AsLabelStore(Db), last'.arg)
            IN last'.result = mem.result /\ AsLabelStore(DbNext) = mem.store
       /\ PgCall("label_find") =>
            last'.result = LabelRepoFind(AsLabelStore(Db), last'.arg)
       /\ PgCall("label_delete") =>
            LET mem == LabelRepoDelete(AsLabelStore(Db), last'.arg)
            IN last'.result = mem.result /\ AsLabelStore(DbNext) = mem.store
       /\ (PgCall("todo_save") /\ last'.arg.labels \subseteq MapValues(AsLabelStore(Db))) =>
            LET mem == TodoRepoSave(AsTodoStore(Db), last'.arg)
            IN last'.result = mem.result /\ AsTodoStore(DbNext) = mem.store
       /\ PgCall("todo_find") =>
            last'.result = TodoRepoFind(AsTodoStore(Db), last'.arg)
       /\ PgCall("todo_delete") =>
            LET mem == TodoRepoDelete(AsTodoStore(Db), last'.arg)
            IN last'.result = mem.result /\ AsTodoStore(DbNext) = mem.store
      ]_vars

TodoCreateLoop(p, t) ==
    IF t.ids = << >>
    THEN /\ pc' = [pc EXCEPT ![p] = "todo_save"]
         /\ task' = [task EXCEPT ![p] = t]
    ELSE LET parsed == UuidParse(Head(t.ids))
         IN IF ~parsed.ok
            THEN Done(p, t, Illegal("IllegalLabelId", parsed.err))
            ELSE /\ pc' = [pc EXCEPT ![p] = "label_find"]
                 /\ task' = [task EXCEPT ![p] =
                                [t EXCEPT !.id = parsed.value, !.ids = Tail(t.ids)]]

\* handle up to its first repository call
ConcTodoCreateBegin(p, text, ids) ==
    /\ pc[p] = "idle"
    /\ nextUuid < MaxUuid
    /\ LET command == [todo_text |-> text, label_ids |-> ids]
           tx == TodoTextNew(text)
       IN IF ~tx.ok
          THEN Done(p, [op |-> "todo_create", command |-> command],
                    Illegal("IllegalArgumentError", tx.err))
          ELSE TodoCreateLoop(p, [op |-> "todo_create", command |-> command,
                                  text |-> tx.value, ids |-> ids, id |-> 0,
                                  labels |-> {}])
    /\ UNCHANGED <<labelStore, nextUuid, lock>>
    /\ ConcUnchanged

\* label_repository.find: read_store_ref of the label store
AcquireLabelRead(p) ==
    /\ pc[p] = "label_find"
    /\ CanRead(lock)
    /\ lock' = [lock EXCEPT !.readers = @ \cup {p}]
    /\ pc' = [pc EXCEPT ![p] = "in_label_find"]
    /\ UNCHANGED <<labelStore, nextUuid, task>>
    /\ ConcUnchanged

ConcTodoFindLabel_KeepGuard(p) ==
    /\ pc[p] = "in_label_find"
    /\ lock' = lock
    /\ LET found == LabelRepoFind(labelStore, task[p].id)
       IN IF found = None
          THEN Done(p, task[p], NotFound("LabelNotFound", task[p].id))
          ELSE TodoCreateLoop(p, [task[p] EXCEPT
                                     !.labels = LabelSetInsert(@, found.some)])
    /\ UNCHANGED <<labelStore, nextUuid>>
    /\ ConcUnchanged

\* find under the read guard of the label store, then the rest of the loop
ConcTodoFindLabel(p) ==
    /\ pc[p] = "in_label_find"
    /\ lock' = [lock EXCEPT !.readers = @ \ {p}]
    /\ LET found == LabelRepoFind(labelStore, task[p].id)
       IN IF found = None
          THEN Done(p, task[p], NotFound("LabelNotFound", task[p].id))
          ELSE TodoCreateLoop(p, [task[p] EXCEPT
                                     !.labels = LabelSetInsert(@, found.some)])
    /\ UNCHANGED <<labelStore, nextUuid>>
    /\ ConcUnchanged

\* todo_repository.save: write_store_ref of the todo store
AcquireTodoWrite(p) ==
    /\ pc[p] = "todo_save"
    /\ CanWrite(todoLock)
    /\ todoLock' = [todoLock EXCEPT !.writers = @ \cup {p}]
    /\ pc' = [pc EXCEPT ![p] = "in_todo_save"]
    /\ UNCHANGED <<labelStore, userStore, todoStore, nextUuid, lock, task,
                   answered, last, voVars, pgVars, v1Vars>>

\* Todo::new, then save under the write guard of the todo store
ConcTodoSave(p) ==
    /\ pc[p] = "in_todo_save"
    /\ todoLock' = [todoLock EXCEPT !.writers = @ \ {p}]
    /\ LET new_todo == Todo(NewUuid, task[p].text, FALSE, task[p].labels)
       IN /\ todoStore' = TodoRepoSave(todoStore, new_todo).store
          /\ Done(p, task[p], AppOk(TodoData(new_todo)))
    /\ nextUuid' = NewUuid
    /\ UNCHANGED <<labelStore, userStore, lock, answered, last, voVars, pgVars, v1Vars>>

\* the handler has answered and the task takes another request; the run has
\* finitely many commands: NumProcs at a time, MaxAnswers more after them
ConcAnswer(p) ==
    /\ pc[p] = "done"
    /\ answered < MaxAnswers
    /\ answered' = answered + 1
    /\ pc' = [pc EXCEPT ![p] = "idle"]
    /\ task' = [task EXCEPT ![p] = None]
    /\ UNCHANGED <<labelStore, userStore, todoStore, nextUuid, lock, todoLock,
                   last, voVars, pgVars, v1Vars>>

\* the commands are label create (find_by_name, save), label delete (find,
\* delete) and todo create (label find per id, todo save)
NextConcTodo ==
    \/ \E p \in Procs : ConcCreateBegin(p, Str(1, 1))
    \/ \E p \in Procs : ConcFindBegin(p, "delete", IdStr(1))
    \/ \E p \in Procs, ids \in SeqsUpTo({IdStr(1)}, MaxLabelIds) :
          ConcTodoCreateBegin(p, Str(1, 1), ids)
    \/ \E p \in Procs : AcquireRead(p)
    \/ \E p \in Procs : AcquireWrite(p)
    \/ \E p \in Procs : AcquireLabelRead(p)
    \/ \E p \in Procs : AcquireTodoWrite(p)
    \/ \E p \in Procs : ConcFindByName(p)
    \/ \E p \in Procs : ConcFind(p)
    \/ \E p \in Procs : ConcSave(p)
    \/ \E p \in Procs : ConcDelete(p)
    \/ \E p \in Procs : ConcTodoFindLabel(p)
    \/ \E p \in Procs : ConcTodoSave(p)
    \/ \E p \in Procs : ConcAnswer(p)

\* a lock request that stays grantable is granted
Acquire(p) ==
    AcquireRead(p) \/ AcquireWrite(p) \/ AcquireLabelRead(p) \/ AcquireTodoWrite(p)

\* the repository call a task is in, and the code after it, run to their end
Proceed(p) ==
    \/ ConcFindByName(p) \/ ConcFind(p)
    \/ ConcSave(p) \/ ConcDelete(p)
    \/ ConcTodoFindLabel(p) \/ ConcTodoSave(p)

SpecConcFair ==
    /\ InitConc
    /\ [][NextConcTodo]_vars
    /\ \A p \in Procs : WF_vars(Proceed(p)) /\ WF_vars(Acquire(p))

\* --------------------------------------------- claims under SpecConcFair
WaitsForLock(p) ==
    pc[p] \in {"find_by_name", "find", "find_all", "save", "delete",
               "label_find", "todo_save"}

HoldsLabelLock(p) == p \in lock.writers \cup lock.readers
HoldsTodoLock(p) == p \in todoLock.writers \cup todoLock.readers

\* a task holds a lock only inside one repository call: never two locks, and
\* none while it waits for a lock or is outside a repository call
OneLockPerCall ==
    \A p \in Procs :
       /\ ~(HoldsLabelLock(p) /\ HoldsTodoLock(p))
       /\ (WaitsForLock(p) \/ pc[p] \in {"idle", "done"}) =>
             ~HoldsLabelLock(p) /\ ~HoldsTodoLock(p)
       /\ HoldsLabelLock(p) <=>
             pc[p] \in {"in_find_by_name", "in_find", "in_find_all", "in_save",
                        "in_delete", "in_label_find"}
       /\ HoldsTodoLock(p) <=> pc[p] = "in_todo_save"

\* whenever a task waits for a lock, the lock can be granted or its holder
\* is inside a repository call that can finish
NoDeadlock ==
    \A p \in Procs :
       WaitsForLock(p) => ENABLED Acquire(p) \/ \E q \in Procs : ENABLED Proceed(q)

DbNotFound(id) == Err([kind |-> "NotFound", id |-> id])

DbCreate_FromZero(store, kind, payload) ==
    LET id == Size(store)
        record == IF kind = "Todo"
                  THEN [kind |-> kind, id |-> id, text |-> payload.text, completed |-> FALSE]
                  ELSE [kind |-> kind, id |-> id, username |-> payload.username]
    IN [result |-> record, store |-> MapInsert(store, id, record)]

\* create: id = store.len() + 1, insert, return the record
DbCreate(store, kind, payload) ==
    LET id == Size(store) + 1
        record == IF kind = "Todo"
                  THEN [kind |-> kind, id |-> id, text |-> payload.text, completed |-> FALSE]
                  ELSE [kind |-> kind, id |-> id, username |-> payload.username]
    IN [result |-> record, store |-> MapInsert(store, id, record)]

\* find: Some(record) only when the id holds a record of the caller's kind
DbFind(store, kind, id) ==
    LET found == MapGet(store, id)
    IN [result |-> IF found # None /\ found.some.kind = kind THEN found ELSE None,
        store |-> store]

\* update: found is what store.get(&id) gave under the guard; the fields the
\* payload leaves out are taken from it
DbUpdate(store, kind, id, payload, found) ==
    IF found = None \/ found.some.kind # kind
    THEN [result |-> DbNotFound(id), store |-> store]
    ELSE LET old == found.some
             new == IF kind = "Todo"
                    THEN [kind |-> kind, id |-> id,
                          text |-> IF payload.text = None THEN old.text
                                   ELSE payload.text.some,
                          completed |-> IF payload.completed = None THEN old.completed
                                        ELSE payload.completed.some]
                    ELSE [kind |-> kind, id |-> id,
                          username |-> IF payload.username = None THEN old.username
                                       ELSE payload.username.some]
         IN [result |-> Ok(new), store |-> MapInsert(store, id, new)]

DbDelete_AnyKind(store, kind, id) ==
    IF MapGet(store, id) = None
    THEN [result |-> DbNotFound(id), store |-> store]
    ELSE [result |-> OkUnit, store |-> MapRemove(store, id)]

\* delete: removes the record only when it is of the caller's kind
DbDelete(store, kind, id) ==
    LET found == MapGet(store, id)
    IN IF found = None \/ found.some.kind # kind
       THEN [result |-> DbNotFound(id), store |-> store]
       ELSE [result |-> OkUnit, store |-> MapRemove(store, id)]

\* the calls of the two handlers' tasks
V1Procs == {1, 2}
V1Ids == {1, 2}
V1Payloads(op, kind) ==
    IF op = "create"
    THEN IF kind = "Todo" THEN {[text |-> Str(1, 1)]} ELSE {[username |-> Str(3, 1)]}
    ELSE IF op = "update"
    THEN IF kind = "Todo"
         THEN {[text |-> Some(Str(1, 2)), completed |-> None],
               [text |-> None, completed |-> Some(TRUE)]}
         ELSE {[username |-> Some(Str(3, 2))]}
    ELSE {None}
\* a handler calls a repository function
V1Call(p, op, kind, id, payload) ==
    /\ pc[p] = "idle"
    /\ op = "create" => creates <= MaxUuid /\ Size(dbData) < MaxUuid
    /\ pc' = [pc EXCEPT ![p] = "call"]
    /\ task' = [task EXCEPT ![p] = [op |-> op, kind |-> kind, id |-> id,
                                    payload |-> payload, found |-> None]]
    /\ UNCHANGED <<appVars, voVars, lock, todoLock, answered, pgVars, v1Vars>>

\* write_store_ref / read_store_ref; update reads the record at once
V1Acquire(p) ==
    /\ pc[p] = "call"
    /\ IF task[p].op = "find"
       THEN CanRead(dbLock) /\ dbLock' = [dbLock EXCEPT !.readers = @ \cup {p}]
       ELSE CanWrite(dbLock) /\ dbLock' = [dbLock EXCEPT !.writers = @ \cup {p}]
    /\ pc' = [pc EXCEPT ![p] = "in_call"]
    /\ task' = [task EXCEPT ![p].found = MapGet(dbData, task[p].id)]
    /\ UNCHANGED <<appVars, voVars, lock, todoLock, answered, pgVars,
                   dbData, creates, deleted>>

\* the rest of the function under the guard, and its return
V1Run(p) ==
    /\ pc[p] = "in_call"
    /\ LET t == task[p]
           r == CASE t.op = "create" -> DbCreate(dbData, t.kind, t.payload)
                  [] t.op = "find" -> DbFind(dbData, t.kind, t.id)
                  [] t.op = "update" ->
                        DbUpdate(dbData, t.kind, t.id, t.payload, t.found)
                  [] t.op = "delete" -> DbDelete(dbData, t.kind, t.id)
       IN /\ dbData' = r.store
          /\ task' = [task EXCEPT ![p] = [op |-> t.op, kind |-> t.kind, id |-> t.id,
                                          payload |-> t.payload, result |-> r.result]]
          /\ creates' = IF t.op = "create" THEN creates + 1 ELSE creates
          /\ deleted' = (deleted \/ (t.op = "delete" /\ r.result = OkUnit))
    /\ dbLock' = [writers |-> dbLock.writers \ {p}, readers |-> dbLock.readers \ {p}]
    /\ pc' = [pc EXCEPT ![p] = "done"]
    /\ UNCHANGED <<appVars, voVars, lock, todoLock, answered, pgVars>>

\* the handler has its answer
V1Return(p) ==
    /\ pc[p] = "done"
    /\ pc' = [pc EXCEPT ![p] = "idle"]
    /\ task' = [task EXCEPT ![p] = None]
    /\ UNCHANGED <<appVars, voVars, lock, todoLock, answered, pgVars, v1Vars>>

NextV1 ==
    \/ \E p \in V1Procs, kind \in {"Todo", "User"} :
          \E op \in {"create", "find", "update", "delete"} :
             \E id \in (IF op = "create" THEN {0} ELSE V1Ids),
                payload \in V1Payloads(op, kind) :
                   V1Call(p, op, kind, id, payload)
    \/ \E p \in V1Procs : V1Acquire(p)
    \/ \E p \in V1Procs : V1Run(p)
    \/ \E p \in V1Procs : V1Return(p)

SpecV1 == InitConc /\ [][NextV1]_vars

\* ------------------------------------------- claims under SpecV1

\* the step on which task p's repository call returns
V1Returns(p, op) == pc[p] = "in_call" /\ pc'[p] = "done" /\ task[p].op = op

\* C21: in the first iteration, starting from the empty store and as long as
\* no delete has removed a record, the k-th create call returns id k, todos
\* and users counted together.
C21_KthCreateReturnsK ==
    [][\A p \in V1Procs :
          (V1Returns(p, "create") /\ ~deleted) => task'[p].result.id = creates + 1]_vars

\* the second create, of a user after a todo, returned id 2
C21_Witness ==
    \E p \in V1Procs :
       /\ pc[p] = "done" /\ task[p].op = "create" /\ task[p].kind = "User"
       /\ task[p].result.id = 2 /\ creates = 2 /\ ~deleted
       /\ MapGet(dbData, 1) # None /\ dbData[1].kind = "Todo"

\* C27: in the first iteration, after any sequence of create and delete
\* calls, a create returns an id that was not in use, makes the store one
\* record larger and leaves the records that were there unchanged.
C27_CreateAddsFreshRecord ==
    [][\A p \in V1Procs :
          V1Returns(p, "create") =>
             /\ task'[p].result.id \notin DOMAIN dbData
             /\ Size(dbData') = Size(dbData) + 1
             /\ \A id \in DOMAIN dbData :
                   id \in DOMAIN dbData' /\ dbData'[id] = dbData[id]]_vars

\* C28: a todo function called with an id that holds a user record finds
\* nothing (find: None, update and delete: NotFound) and leaves the store as
\* it is, and so does a user function called with the id of a todo record.
C28_OtherKindIsAbsent ==
    [][\A p \in V1Procs : \A op \in {"find", "update", "delete"} :
          (/\ V1Returns(p, op)
           /\ task[p].id \in DOMAIN dbData
           /\ dbData[task[p].id].kind # task[p].kind) =>
             /\ task'[p].result = IF op = "find" THEN None ELSE DbNotFound(task[p].id)
             /\ dbData' = dbData]_vars

\* a todo delete was refused on a user's id and a user update on a todo's id
C28_Witness ==
    \E p, q \in V1Procs : \E i, j \in DOMAIN dbData :
       /\ dbData[i].kind = "User" /\ dbData[j].kind = "Todo"
       /\ pc[p] = "done" /\ task[p].op = "delete" /\ task[p].kind = "Todo"
       /\ task[p].id = i /\ task[p].result = DbNotFound(i)
       /\ pc[q] = "done" /\ task[q].op = "update" /\ task[q].kind = "User"
       /\ task[q].id = j /\ task[q].result = DbNotFound(j)

\* two answered updates of one todo, the first of the text only and the
\* second of completed only
TwoUpdatesDone(p, q) ==
    /\ pc[p] = "done" /\ pc[q] = "done"
    /\ task[p].op = "update" /\ task[q].op = "update"
    /\ task[p].kind = "Todo" /\ task[q].kind = "Todo"
    /\ task[p].id = task[q].id
    /\ task[p].result.ok /\ task[q].result.ok
    /\ task[p].payload.text # None /\ task[p].payload.completed = None
    /\ task[q].payload.text = None /\ task[q].payload.completed # None

\* C30: a first-iteration update reads the record, merges the payload and
\* writes the result back under one exclusive guard (what it read is still
\* what is stored when it writes), so two concurrent updates of different
\* fields of one todo both take effect: each leaves the field it does not
\* name as the store has it at the write.
C30_UpdateUnderOneGuard ==
    [][\A p \in V1Procs :
          (V1Returns(p, "update") /\ task[p].kind = "Todo" /\ task'[p].result.ok) =>
             LET id == task[p].id
                 payload == task[p].payload
             IN /\ task[p].found = MapGet(dbData, id)
                /\ dbLock.writers = {p} /\ dbLock.readers = {}
                /\ dbData'[id].text =
                      IF payload.text = None THEN dbData[id].text ELSE payload.text.some
                /\ dbData'[id].completed =
                      IF payload.completed = None THEN dbData[id].completed
                      ELSE payload.completed.some]_vars

\* both updates are answered and the stored todo has the new text and is completed
C30_Witness ==
    \E p, q \in V1Procs :
       /\ TwoUpdatesDone(p, q)
       /\ dbData[task[p].id].text = Str(1, 2)
       /\ dbData[task[p].id].completed

\* ------------------------------ second iteration: the todo handlers in memory
\* InMemoryTodoRepository keeps HashMap<TodoId, Todo> behind a RwLock that each
\* repository function takes and releases itself: a handler's calls are
\* separate critical sections.  The store is todoStore, the ids are Uuids.

V2NotFound(id) == Err([kind |-> "NotFound", id |-> id])

\* find: Ok(clone) or Err(NotFound)
V2RepoFind(store, todo_id) ==
    IF todo_id \in DOMAIN store THEN Ok(store[todo_id]) ELSE V2NotFound(todo_id)

\* delete: removes the entry, or Err(NotFound) when there is none
V2RepoDelete(store, todo) ==
    IF todo.id \in DOMAIN store
    THEN [result |-> OkUnit, store |-> MapRemove(store, todo.id)]
    ELSE [result |-> V2NotFound(todo.id), store |-> store]

V2Answer(p, op, id, status) ==
    /\ pc' = [pc EXCEPT ![p] = "done"]
    /\ task' = [task EXCEPT ![p] = [op |-> op, id |-> id,
                                    result |-> [status |-> status]]]

\* POST /todos: Todo::new and save
V2Create(p, text) ==
    /\ pc[p] = "idle"
    /\ nextUuid < MaxUuid
    /\ LET todo == [id |-> NewUuid, text |-> text, completed |-> FALSE]
       IN /\ todoStore' = MapInsert(todoStore, todo.id, todo)
          /\ nextUuid' = NewUuid
          /\ V2Answer(p, "create", todo.id, 201)
    /\ UNCHANGED <<labelStore, userStore, last, voVars, lock, todoLock, answered,
                   pgVars, v1Vars>>

\* DELETE /todos/{id}, first call: repository.find
V2DeleteFind(p, id) ==
    /\ pc[p] = "idle"
    /\ LET found == V2RepoFind(todoStore, id)
       IN IF found.ok
          THEN /\ pc' = [pc EXCEPT ![p] = "in_delete"]
               /\ task' = [task EXCEPT ![p] = [op |-> "delete", id |-> id,
                                               todo |-> found.value]]
          ELSE IF found = V2NotFound(id)
               THEN V2Answer(p, "delete", id, 404)
               ELSE V2Answer(p, "delete", id, 500)
    /\ UNCHANGED <<appVars, voVars, lock, todoLock, answered, pgVars, v1Vars>>

\* DELETE /todos/{id}, second call: repository.delete(todo)
V2DeleteCall(p) ==
    /\ pc[p] = "in_delete"
    /\ LET r == V2RepoDelete(todoStore, task[p].todo)
       IN /\ todoStore' = r.store
          /\ V2Answer(p, "delete", task[p].id, IF r.result.ok THEN 204 ELSE 500)
    /\ UNCHANGED <<labelStore, userStore, nextUuid, last, voVars, lock, todoLock,
                   answered, pgVars, v1Vars>>

NextV2 ==
    \/ \E p \in Procs : V2Create(p, Str(1, 1))
    \/ \E p \in Procs, id \in Uuids : V2DeleteFind(p, id)
    \/ \E p \in Procs : V2DeleteCall(p)
    \/ \E p \in Procs : ConcRespond(p)

SpecV2 == InitConc /\ [][NextV2]_vars

\* ------------------------------------------- claims under SpecV2

\* C29: in the second iteration, DELETE /todos/{id} over the in-memory
\* repository answers 204 when it removed the todo and 404 when the todo is
\* absent, and never answers 500, whatever the interleaving with other
\* requests.
C29_DeleteAnswers204Or404 ==
    [][\A p \in Procs :
          (pc[p] # "done" /\ pc'[p] = "done" /\ task'[p].op = "delete") =>
             /\ task'[p].result.status =
                   IF task'[p].id \in DOMAIN todoStore THEN 204 ELSE 404
             /\ task'[p].id \notin DOMAIN todoStore']_vars

\* ----------------------------- todo commands handled at the same time
\* Each command is a task of the runtime.  A call on InMemoryTodoRepository
\* takes the store's guard and returns it, so a task's calls are single steps
\* and other tasks may run between its find and its save or delete.

TodoCallInputs == {IdStr(1), MalformedId}
TodoCallUpdates ==
    [todo_id : TodoCallInputs, todo_text : {None, Some(Str(2, 1))},
     completed : {None, Some(TRUE)}, label_ids : {None}]

\* TodoCreateApplicationService.handle without labels: one call, save
TodoCallCreate(p) ==
    /\ pc[p] = "idle"
    /\ nextUuid < MaxUuid
    /\ LET command == [todo_text |-> Str(1, 1), label_ids |-> << >>]
       IN \E o \in TodoCreateHandle(todoStore, labelStore, command, NewUuid) :
            /\ todoStore' = o.store
            /\ nextUuid' = NewUuid
            /\ Done(p, [op |-> "create", command |-> command], o.result)
    /\ UNCHANGED <<labelStore, userStore, last, voVars, lock, todoLock, answered,
                   pgVars, v1Vars>>

\* get, update and delete begin alike: TodoId::parse, todo_repository.find
TodoCallFind(p, op, command) ==
    /\ pc[p] = "idle"
    /\ LET t == [op |-> op, command |-> command]
           id == UuidParse(command.todo_id)
       IN IF ~id.ok
          THEN Done(p, t, Illegal("IllegalTodoId", id.err))
          ELSE LET found == TodoRepoFind(todoStore, id.value)
               IN IF found = None
                  THEN Done(p, t, NotFound("TodoNotFound", id.value))
                  ELSE IF op = "get"
                  THEN Done(p, t, AppOk(TodoData(found.some)))
                  ELSE /\ pc' = [pc EXCEPT ![p] = "found"]
                       /\ task' = [task EXCEPT ![p] = [op |-> op, command |-> command,
                                                       todo |-> found.some]]
    /\ UNCHANGED <<appVars, voVars, lock, todoLock, answered, pgVars, v1Vars>>

\* update: the found todo is changed as the command says and saved
TodoCallSave(p) ==
    /\ pc[p] = "found"
    /\ task[p].op = "update"
    /\ LET command == task[p].command
           text == IF command.todo_text = None
                   THEN Ok(task[p].todo.todo_text)
                   ELSE TodoTextNew(command.todo_text.some)
       IN IF ~text.ok
          THEN /\ Done(p, task[p], Illegal("IllegalArgumentError", text.err))
               /\ UNCHANGED todoStore
          ELSE LET todo == [task[p].todo EXCEPT
                              !.todo_text = text.value,
                              !.completed = IF command.completed = None THEN @
                                            ELSE command.completed.some]
               IN /\ todoStore' = TodoRepoSave(todoStore, todo).store
                  /\ Done(p, task[p], AppOk(TodoData(todo)))
    /\ UNCHANGED <<labelStore, userStore, nextUuid, last, voVars, lock, todoLock,
                   answered, pgVars, v1Vars>>

\* delete: todo_repository.delete(todo), NotFound becomes TodoNotFound
TodoCallDelete(p) ==
    /\ pc[p] = "found"
    /\ task[p].op = "delete"
    /\ LET r == TodoRepoDelete(todoStore, task[p].todo)
       IN /\ todoStore' = r.store
          /\ Done(p, task[p], IF r.result = OkUnit THEN AppOkUnit
                              ELSE NotFound("TodoNotFound", r.result.err.id))
    /\ UNCHANGED <<labelStore, userStore, nextUuid, last, voVars, lock, todoLock,
                   answered, pgVars, v1Vars>>

NextTodoCalls ==
    \/ \E p \in Procs : TodoCallCreate(p)
    \/ \E p \in Procs, op \in {"get", "delete"}, id \in TodoCallInputs :
          TodoCallFind(p, op, [todo_id |-> id])
    \/ \E p \in Procs, command \in TodoCallUpdates : TodoCallFind(p, "update", command)
    \/ \E p \in Procs : TodoCallSave(p)
    \/ \E p \in Procs : TodoCallDelete(p)
    \/ \E p \in Procs : ConcRespond(p)

SpecTodoCalls == InitConc /\ [][NextTodoCalls]_vars

\* ------------------------------------------- claims under SpecTodoCalls

\* task p has its answer: the command op of todo id succeeded
Succeeded(p, op, id) ==
    /\ pc[p] = "done" /\ task[p].op = op /\ task[p].result.kind = "Ok"
    /\ task[p].command.todo_id = IdStr(id)

\* C23: once a delete command of an id has returned success, the id is not
\* in the store again (ids are never handed out twice) and a get of it
\* answers TodoNotFound, whatever commands, such as an update of the same id
\* that began before the delete, run at the same time or afterwards.
C23_DeletedStaysDeleted ==
    /\ [](\A p \in Procs, id \in Uuids :
             Succeeded(p, "delete", id) => id \notin DOMAIN todoStore)
    /\ [][\A p, q \in Procs, id \in Uuids :
             (/\ Succeeded(p, "delete", id)
              /\ pc[q] = "idle" /\ pc'[q] = "done" /\ task'[q].op = "get"
              /\ task'[q].command.todo_id = IdStr(id)) =>
                task'[q].result.kind = "TodoNotFound"]_vars

TextOnly(command) == command.todo_text # None /\ command.completed = None
CompletedOnly(command) == command.todo_text = None /\ command.completed # None

\* C24: two updates of one stored todo run at the same time, one giving only
\* the text and the other only completed; when both succeed the stored todo
\* has both changes: the later save, made while the earlier command's todo
\* is what the store holds, keeps the change the earlier one made.
C24_BothUpdatesKept ==
    [][\A p, q \in Procs, id \in Uuids :
          (/\ Succeeded(p, "update", id)
           /\ pc[q] = "found" /\ task[q].op = "update" /\ pc'[q] = "done"
           /\ task[q].command.todo_id = IdStr(id)
           /\ task'[q].result.kind = "Ok"
           /\ id \in DOMAIN todoStore
           /\ TodoData(todoStore[id]) = task[p].result.data
           /\ \/ TextOnly(task[p].command) /\ CompletedOnly(task[q].command)
              \/ CompletedOnly(task[p].command) /\ TextOnly(task[q].command)) =>
             /\ Value(todoStore'[id].todo_text) =
                   IF task[p].command.todo_text # None
                   THEN task[p].command.todo_text.some
                   ELSE task[q].command.todo_text.some
             /\ todoStore'[id].completed =
                   IF task[p].command.completed # None
                   THEN task[p].command.completed.some
                   ELSE task[q].command.completed.some]_vars

====
